---- MODULE Spec2Model ----
(***************************************************************************)
(* Signal-suppression gates of the alerting repository.                    *)
(*                                                                         *)
(* Every gate keeps a dict in memory and mirrors it to a JSON file.  A     *)
(* dict is modelled as a function whose DOMAIN is the set of keys present, *)
(* so `key in self.cache` is `key \in DOMAIN cache`.  Keys are the strings *)
(* the code builds (f"{symbol}_{signal_type}").  Time is the wall clock in *)
(* whole hours (the unit of the code's timedelta(hours=...) constants);    *)
(* datetime.isoformat()/fromisoformat() of the naive datetimes the         *)
(* analyzers pass is loss-free, so a stored time is the integer itself.    *)
(*                                                                         *)
(* The repository holds several independent programs (one analyzer script  *)
(* per gate).  `program` names the one a behaviour runs.                   *)
(***************************************************************************)
EXTENDS Integers, Sequences, FiniteSets, TLC

VARIABLES
    now,                 \* datetime.utcnow() / time.time(), in hours
    program,             \* the analyzer script this behaviour runs
    cache,               \* SignalDeduplicator.cache
    cache_file,          \* contents of SignalDeduplicator.cache_file
    signal_cache,        \* Deduplicator15m.signal_cache
    signal_cache_file,   \* contents of Deduplicator15m.cache_file
    signal_history,      \* Deduplicator30m.signal_history
    history_file,        \* contents of Deduplicator30m.cache_file
    processes,           \* per analyzer process sharing state_file: its suppressor's dict
    ema_files,           \* contents of cache/ema_<short>_<long>_alerts.json, per file
    ema_config,          \* the enabled analysis of config/ema_config.yaml
    active_analysis,     \* DynamicEMAIndicator.active_analysis
    last_config_check,   \* DynamicEMAIndicator.last_config_check
    run6h,               \* Multi6HAnalyzer.run_analysis: where it stands, valid_signals
    suppression_states,  \* MultiTimeframeSuppressionManager.suppression_states
    state_file,          \* contents of MultiTimeframeSuppressionManager.state_file
    signal_result,       \* run_analysis: the allowed signal not yet recorded
    escalation,          \* history: progress of the 6h,6h,8h,8h,12h,12h sequence
    max_workers,         \* config['system']['max_workers'] of the thread pool
    alerts_file,         \* contents of cache/cipher_b_alerts.json
    pc,                  \* per pool worker: where its analyze() call stands
    task,                \* per pool worker: the arguments of its analyze() call
    local,               \* per pool worker: the `cache` local of analyze()
    result,              \* per pool worker: what analyze() returned
    concurrent,          \* history: per worker, the calls its call overlapped
    analysed,            \* history: per symbol, analyze() calls started this run
    last,                \* history: the gate operation of the latest step, if any
    marked,              \* history: one earlier allowed call, chosen arbitrarily
    recent               \* history: per symbol, the latest allowed call

vars == <<now, program, cache, cache_file, signal_cache, signal_cache_file,
          signal_history, history_file, processes,
          ema_files, ema_config, active_analysis, last_config_check, run6h,
          suppression_states, state_file, signal_result, escalation,
          max_workers, alerts_file, pc, task, local, result, concurrent, analysed,
          last, marked, recent>>

dedupVars == <<cache, cache_file>>
dedup15mVars == <<signal_cache, signal_cache_file>>
dedup30mVars == <<signal_history, history_file>>
processVars == <<processes>>
emaVars == <<ema_files, ema_config, active_analysis, last_config_check>>
runVars == <<run6h>>
cascadeVars == <<suppression_states, state_file, signal_result, escalation>>
latchVars == <<max_workers, alerts_file, pc, task, local, result, concurrent, analysed>>
historyVars == <<last, marked, recent>>

----------------------------------------------------------------------------
(* Bounds of the model *)

MaxNow == 5              \* the clock runs hour by hour from 0 to MaxNow
MaxSleep == 2            \* and then makes up to MaxSleep jumps of one cooldown
MaxSignalAge == 2        \* a call carries a candle timestamp now - 0 .. now - MaxSignalAge

Symbols == {"BTCUSDT", "ETHUSDT"}    \* coins of the concurrent analyzers
GateSymbols == {"BTCUSDT"}           \* the sequential gates never read another symbol's record
SignalTypes == {"BUY", "SELL"}
SignalAges == 0 .. MaxSignalAge

----------------------------------------------------------------------------
(* dict operations *)

EmptyDict == << >>

Put(d, k, v) == [x \in (DOMAIN d) \cup {k} |-> IF x = k THEN v ELSE d[x]]

Del(d, k) == [x \in (DOMAIN d) \ {k} |-> d[x]]

DelAll(d, ks) == [x \in (DOMAIN d) \ ks |-> d[x]]

----------------------------------------------------------------------------
(* SignalDeduplicator: src/shared/alerts/deduplication.py *)

cooldown_hours == 4

stale_hours == 1

opposite(signal_type) == IF signal_type = "BUY" THEN "SELL" ELSE "BUY"

get_state_key(symbol, signal_type) == symbol \o "_" \o signal_type

\* save_cache(): the file receives the whole in-memory dict.
SignalDeduplicator_save_cache_date_only(c) ==
    [key \in DOMAIN c |-> (c[key] \div 24) * 24]

SignalDeduplicator_save_cache(c) == c

\* is_signal_allowed(symbol, signal_type, timestamp) evaluated at wall-clock t
\* on cache c: the returned value and the cache it leaves.
SignalDeduplicator_is_signal_allowed_no_delete(c, symbol, signal_type, timestamp, t) ==
    LET same_direction_key == get_state_key(symbol, signal_type)
    IN  IF t - timestamp > stale_hours
        THEN [allowed |-> FALSE, cache |-> c, saved |-> FALSE]
        ELSE IF same_direction_key \in DOMAIN c
                /\ t - c[same_direction_key] < cooldown_hours
        THEN [allowed |-> FALSE, cache |-> c, saved |-> FALSE]
        ELSE [allowed |-> TRUE,
              cache |-> Put(c, same_direction_key, t),
              saved |-> TRUE]

SignalDeduplicator_is_signal_allowed_le(c, symbol, signal_type, timestamp, t) ==
    LET same_direction_key == get_state_key(symbol, signal_type)
        opposite_key == get_state_key(symbol, opposite(signal_type))
    IN  IF t - timestamp > stale_hours
        THEN [allowed |-> FALSE, cache |-> c, saved |-> FALSE]
        ELSE IF same_direction_key \in DOMAIN c
                /\ t - c[same_direction_key] <= cooldown_hours
        THEN [allowed |-> FALSE, cache |-> c, saved |-> FALSE]
        ELSE [allowed |-> TRUE,
              cache |-> Put(Del(c, opposite_key), same_direction_key, t),
              saved |-> TRUE]

SignalDeduplicator_is_signal_allowed_ge(c, symbol, signal_type, timestamp, t) ==
    LET same_direction_key == get_state_key(symbol, signal_type)
        opposite_key == get_state_key(symbol, opposite(signal_type))
    IN  IF t - timestamp >= stale_hours
        THEN [allowed |-> FALSE, cache |-> c, saved |-> FALSE]
        ELSE IF same_direction_key \in DOMAIN c
                /\ t - c[same_direction_key] < cooldown_hours
        THEN [allowed |-> FALSE, cache |-> c, saved |-> FALSE]
        ELSE [allowed |-> TRUE,
              cache |-> Put(Del(c, opposite_key), same_direction_key, t),
              saved |-> TRUE]

SignalDeduplicator_is_signal_allowed_from_signal_time(c, symbol, signal_type, timestamp, t) ==
    LET same_direction_key == get_state_key(symbol, signal_type)
        opposite_key == get_state_key(symbol, opposite(signal_type))
    IN  IF t - timestamp > stale_hours
        THEN [allowed |-> FALSE, cache |-> c, saved |-> FALSE]
        ELSE IF same_direction_key \in DOMAIN c
                /\ t - c[same_direction_key] < cooldown_hours
        THEN [allowed |-> FALSE, cache |-> c, saved |-> FALSE]
        ELSE [allowed |-> TRUE,
              cache |-> Put(Del(c, opposite_key), same_direction_key, timestamp),
              saved |-> TRUE]

SignalDeduplicator_is_signal_allowed_stale_clears(c, symbol, signal_type, timestamp, t) ==
    LET same_direction_key == get_state_key(symbol, signal_type)
        opposite_key == get_state_key(symbol, opposite(signal_type))
    IN  IF t - timestamp > stale_hours
        THEN [allowed |-> FALSE, cache |-> Del(c, opposite_key), saved |-> TRUE]
        ELSE IF same_direction_key \in DOMAIN c
                /\ t - c[same_direction_key] < cooldown_hours
        THEN [allowed |-> FALSE, cache |-> c, saved |-> FALSE]
        ELSE [allowed |-> TRUE,
              cache |-> Put(Del(c, opposite_key), same_direction_key, t),
              saved |-> TRUE]

SignalDeduplicator_is_signal_allowed(c, symbol, signal_type, timestamp, t) ==
    LET same_direction_key == get_state_key(symbol, signal_type)
        opposite_key == get_state_key(symbol, opposite(signal_type))
    IN  IF t - timestamp > stale_hours
        THEN [allowed |-> FALSE, cache |-> c, saved |-> FALSE]
        ELSE IF same_direction_key \in DOMAIN c
                /\ t - c[same_direction_key] < cooldown_hours
        THEN [allowed |-> FALSE, cache |-> c, saved |-> FALSE]
        ELSE [allowed |-> TRUE,
              cache |-> Put(Del(c, opposite_key), same_direction_key, t),
              saved |-> TRUE]

SignalDeduplicator_keys_to_remove_half(c, t) ==
    {key \in DOMAIN c : c[key] < t - cooldown_hours \div 2}

\* cleanup_old_records(): the keys it removes at wall-clock t.
SignalDeduplicator_keys_to_remove(c, t) ==
    {key \in DOMAIN c : c[key] < t - cooldown_hours * 2}

\* History bookkeeping shared by the cooldown gates: the call, its outcome,
\* and what was known before it.  `recent` follows the latest allowed call of
\* each symbol; `marked` remembers one allowed call, picked arbitrarily, so
\* that a statement about "any earlier allowed call" ranges over all of them.
Unmarked == [set |-> FALSE, key |-> "", at |-> 0]

NoRecent == [signal_type |-> "", at |-> 0, timestamp |-> 0]

NoteCall(op, symbol, signal_type, timestamp, allowed, before) ==
    LET key == get_state_key(symbol, signal_type)
    IN  /\ last' = [op |-> op, symbol |-> symbol, signal_type |-> signal_type,
                    timestamp |-> timestamp, at |-> now, allowed |-> allowed,
                    before |-> before, marked |-> marked,
                    had_recent |-> symbol \in DOMAIN recent,
                    recent |-> IF symbol \in DOMAIN recent
                               THEN recent[symbol] ELSE NoRecent]
        /\ recent' = IF allowed
                     THEN Put(recent, symbol,
                              [signal_type |-> signal_type, at |-> now,
                               timestamp |-> timestamp])
                     ELSE recent
        /\ \/ marked' = marked
           \/ /\ allowed
              /\ ~marked.set
              /\ marked' = [set |-> TRUE, key |-> key, at |-> now]

IsSignalAllowed ==
    /\ program = "analyzer_15m_cto_shared"
    /\ \E symbol \in GateSymbols, signal_type \in SignalTypes, age \in SignalAges :
          LET r == SignalDeduplicator_is_signal_allowed(
                       cache, symbol, signal_type, now - age, now)
          IN  /\ cache' = r.cache
              /\ cache_file' = IF r.saved THEN SignalDeduplicator_save_cache(r.cache)
                               ELSE cache_file
              /\ NoteCall("SignalDeduplicator.is_signal_allowed",
                          symbol, signal_type, now - age, r.allowed, cache)
    /\ UNCHANGED <<now, program, runVars, emaVars, dedup15mVars, dedup30mVars, processVars, cascadeVars, latchVars>>

CleanupOldRecords ==
    /\ program = "analyzer_15m_cto_shared"
    /\ LET keys_to_remove == SignalDeduplicator_keys_to_remove(cache, now)
       IN  /\ cache' = DelAll(cache, keys_to_remove)
           /\ cache_file' = IF keys_to_remove # {}
                            THEN SignalDeduplicator_save_cache(cache')
                            ELSE cache_file
           /\ last' = [op |-> "SignalDeduplicator.cleanup_old_records",
                       at |-> now, before |-> cache, removed |-> keys_to_remove]
    /\ UNCHANGED <<now, program, runVars, emaVars, dedup15mVars, dedup30mVars, processVars, cascadeVars, latchVars, marked, recent>>

----------------------------------------------------------------------------
(* Deduplicator15m: src/alerts/deduplication_15m.py *)

Deduplicator15m_cooldown_hours == 4

cleanup_hours_15m == 24

recent_key(symbol) == symbol \o "_recent"

Deduplicator15m_save_cache(sc) == sc

Deduplicator15m_is_signal_allowed_any_type(sc, symbol, signal_type, signal_timestamp, t) ==
    LET symbol_key == recent_key(symbol)
        record == [signal_type |-> signal_type,
                   signal_time |-> signal_timestamp,
                   alerted_at |-> t]
    IN  IF symbol_key \in DOMAIN sc
           /\ t - sc[symbol_key].signal_time < Deduplicator15m_cooldown_hours
        THEN [allowed |-> FALSE, cache |-> sc, saved |-> FALSE]
        ELSE [allowed |-> TRUE, cache |-> Put(sc, symbol_key, record), saved |-> TRUE]

Deduplicator15m_is_signal_allowed_from_alerted_at(sc, symbol, signal_type, signal_timestamp, t) ==
    LET symbol_key == recent_key(symbol)
        record == [signal_type |-> signal_type,
                   signal_time |-> signal_timestamp,
                   alerted_at |-> t]
    IN  IF symbol_key \in DOMAIN sc
           /\ signal_type = sc[symbol_key].signal_type
           /\ t - sc[symbol_key].alerted_at < Deduplicator15m_cooldown_hours
        THEN [allowed |-> FALSE, cache |-> sc, saved |-> FALSE]
        ELSE [allowed |-> TRUE, cache |-> Put(sc, symbol_key, record), saved |-> TRUE]

Deduplicator15m_is_signal_allowed(sc, symbol, signal_type, signal_timestamp, t) ==
    LET symbol_key == recent_key(symbol)
        record == [signal_type |-> signal_type,
                   signal_time |-> signal_timestamp,
                   alerted_at |-> t]
    IN  IF symbol_key \in DOMAIN sc
           /\ signal_type = sc[symbol_key].signal_type
           /\ t - sc[symbol_key].signal_time < Deduplicator15m_cooldown_hours
        THEN [allowed |-> FALSE, cache |-> sc, saved |-> FALSE]
        ELSE [allowed |-> TRUE, cache |-> Put(sc, symbol_key, record), saved |-> TRUE]

\* A loaded record's field is usable when data[field] exists and
\* datetime.fromisoformat accepts it; the model keeps exactly those fields.
Parses(data, field) == field \in DOMAIN data

Deduplicator15m_old_keys_le(sc, t) ==
    {key \in DOMAIN sc : \/ ~Parses(sc[key], "alerted_at")
                         \/ sc[key].alerted_at <= t - cleanup_hours_15m}

\* cleanup_old_signals(): the keys it removes at wall-clock t; the except
\* branch (ValueError, TypeError, KeyError) removes the invalid entries.
Deduplicator15m_old_keys(sc, t) ==
    {key \in DOMAIN sc : \/ ~Parses(sc[key], "alerted_at")
                         \/ sc[key].alerted_at < t - cleanup_hours_15m}

IsSignalAllowed15m ==
    /\ program = "analyzer_15m_cto"
    /\ \E symbol \in GateSymbols, signal_type \in SignalTypes, age \in SignalAges :
          LET r == Deduplicator15m_is_signal_allowed(
                       signal_cache, symbol, signal_type, now - age, now)
          IN  /\ signal_cache' = r.cache
              /\ signal_cache_file' = IF r.saved
                                      THEN Deduplicator15m_save_cache(r.cache)
                                      ELSE signal_cache_file
              /\ NoteCall("Deduplicator15m.is_signal_allowed",
                          symbol, signal_type, now - age, r.allowed,
                          signal_cache)
    /\ UNCHANGED <<now, program, runVars, emaVars, dedupVars, dedup30mVars, processVars, cascadeVars, latchVars>>

CleanupOldSignals ==
    /\ program = "analyzer_15m_cto"
    /\ LET old_keys == Deduplicator15m_old_keys(signal_cache, now)
       IN  /\ signal_cache' = DelAll(signal_cache, old_keys)
           /\ signal_cache_file' = IF old_keys # {}
                                   THEN Deduplicator15m_save_cache(signal_cache')
                                   ELSE signal_cache_file
           /\ last' = [op |-> "Deduplicator15m.cleanup_old_signals",
                       at |-> now, before |-> signal_cache, removed |-> old_keys]
    /\ UNCHANGED <<now, program, runVars, emaVars, dedupVars, dedup30mVars, processVars, cascadeVars, latchVars, marked, recent>>

----------------------------------------------------------------------------
(* Deduplicator30m: src/alerts/deduplication_30m.py *)

MaxFutureAge == 1        \* a 30m call's candle timestamp can lie this many hours ahead

Deduplicator30m_cooldown_hours == 4

cleanup_hours_30m == 24

SignalAges30m == (0 - MaxFutureAge) .. MaxSignalAge

Deduplicator30m_save_history(sh) == sh

\* is_signal_allowed(symbol, signal_type, signal_timestamp) at wall-clock t on
\* the dict sh: the decision and the dict it leaves (and saves when allowed).
Deduplicator30m_is_signal_allowed_opposite_resets(sh, symbol, signal_type, signal_timestamp, t) ==
    LET signal_key == get_state_key(symbol, signal_type)
        opposite_key == get_state_key(symbol, opposite(signal_type))
        record == [symbol |-> symbol, signal_type |-> signal_type,
                   timestamp |-> signal_timestamp, recorded_at |-> t]
    IN  IF signal_key \in DOMAIN sh
           /\ t - sh[signal_key].timestamp < Deduplicator30m_cooldown_hours
        THEN [allowed |-> FALSE, cache |-> sh, saved |-> FALSE]
        ELSE [allowed |-> TRUE, cache |-> Del(Put(sh, signal_key, record), opposite_key),
              saved |-> TRUE]

Deduplicator30m_is_signal_allowed_symbol_key(sh, symbol, signal_type, signal_timestamp, t) ==
    LET signal_key == recent_key(symbol)
        record == [symbol |-> symbol, signal_type |-> signal_type,
                   timestamp |-> signal_timestamp, recorded_at |-> t]
    IN  IF signal_key \in DOMAIN sh
           /\ t - sh[signal_key].timestamp < Deduplicator30m_cooldown_hours
        THEN [allowed |-> FALSE, cache |-> sh, saved |-> FALSE]
        ELSE [allowed |-> TRUE, cache |-> Put(sh, signal_key, record), saved |-> TRUE]

Deduplicator30m_is_signal_allowed_recorded_at_candle(sh, symbol, signal_type, signal_timestamp, t) ==
    LET signal_key == get_state_key(symbol, signal_type)
        record == [symbol |-> symbol, signal_type |-> signal_type,
                   timestamp |-> signal_timestamp,
                   recorded_at |-> signal_timestamp]
    IN  IF signal_key \in DOMAIN sh
           /\ t - sh[signal_key].timestamp < Deduplicator30m_cooldown_hours
        THEN [allowed |-> FALSE, cache |-> sh, saved |-> FALSE]
        ELSE [allowed |-> TRUE, cache |-> Put(sh, signal_key, record), saved |-> TRUE]

Deduplicator30m_is_signal_allowed(sh, symbol, signal_type, signal_timestamp, t) ==
    LET signal_key == get_state_key(symbol, signal_type)
        record == [symbol |-> symbol, signal_type |-> signal_type,
                   timestamp |-> signal_timestamp, recorded_at |-> t]
    IN  IF signal_key \in DOMAIN sh
           /\ t - sh[signal_key].timestamp < Deduplicator30m_cooldown_hours
        THEN [allowed |-> FALSE, cache |-> sh, saved |-> FALSE]
        ELSE [allowed |-> TRUE, cache |-> Put(sh, signal_key, record), saved |-> TRUE]

\* cleanup_old_signals(): the keys it removes at wall-clock t.
Deduplicator30m_old_keys(sh, t) ==
    {key \in DOMAIN sh : sh[key].timestamp < t - cleanup_hours_30m}

IsSignalAllowed30m ==
    /\ program = "analyzer_30m"
    /\ \E symbol \in GateSymbols, signal_type \in SignalTypes, age \in SignalAges30m :
          LET r == Deduplicator30m_is_signal_allowed(
                       signal_history, symbol, signal_type, now - age, now)
          IN  /\ signal_history' = r.cache
              /\ history_file' = IF r.saved
                                 THEN Deduplicator30m_save_history(r.cache)
                                 ELSE history_file
              /\ NoteCall("Deduplicator30m.is_signal_allowed",
                          symbol, signal_type, now - age, r.allowed,
                          signal_history)
    /\ UNCHANGED <<now, program, runVars, emaVars, dedupVars, dedup15mVars, processVars,
                   cascadeVars, latchVars>>

CleanupOldSignals30m ==
    /\ program = "analyzer_30m"
    /\ LET old_keys == Deduplicator30m_old_keys(signal_history, now)
       IN  /\ signal_history' = DelAll(signal_history, old_keys)
           /\ history_file' = IF old_keys # {}
                              THEN Deduplicator30m_save_history(signal_history')
                              ELSE history_file
           /\ last' = [op |-> "Deduplicator30m.cleanup_old_signals",
                       at |-> now, before |-> signal_history, removed |-> old_keys]
    /\ UNCHANGED <<now, program, runVars, emaVars, dedupVars, dedup15mVars, processVars,
                   cascadeVars, latchVars, marked, recent>>

----------------------------------------------------------------------------
(* The clock: hour by hour up to MaxNow, then in jumps of a cooldown *)

Idle == [op |-> "none"]

Tick ==
    /\ now < MaxNow
    /\ now' = now + 1
    /\ last' = Idle
    /\ UNCHANGED <<program, runVars, emaVars, dedupVars, dedup15mVars, dedup30mVars, processVars, cascadeVars, latchVars, marked, recent>>

Sleep ==
    /\ now >= MaxNow
    /\ now < MaxNow + MaxSleep * cooldown_hours
    /\ now' = now + cooldown_hours
    /\ last' = Idle
    /\ UNCHANGED <<program, runVars, emaVars, dedupVars, dedup15mVars, dedup30mVars, processVars, cascadeVars, latchVars, marked, recent>>

----------------------------------------------------------------------------
(* MultiTimeframeSuppressionManager: src/shared/alerts/deduplication.py,   *)
(* driven by run_analysis of src/system-multi/analyzer_6h.py               *)

MaxDays == 8             \* the cascade clock runs day by day from 0 to MaxDays days
MaxCandleAge == 1        \* a signal carries a candle timestamp now - 0 .. now - MaxCandleAge
MaxHours == 1            \* hours the clock can move within a day
MaxMultiDays == 1        \* days the clock of analyzer_12h runs day by day
MaxMultiSleep == 1       \* and then makes up to MaxMultiSleep jumps of 72h
MaxAlertAge == 1         \* should_alert gets a candle timestamp now - 0 .. now - MaxAlertAge

cascade_order == <<"6h", "8h", "12h">>

Timeframes == {"6h", "8h", "12h", "4h"}   \* "4h" is not in the cascade

suppression_window == 72

cleanup_threshold == 168

day_hours == 24

InCascade(timeframe) == \E i \in DOMAIN cascade_order : cascade_order[i] = timeframe

\* cascade_order.index(timeframe); raises ValueError when ~InCascade(timeframe)
index(timeframe) == CHOOSE i \in DOMAIN cascade_order : cascade_order[i] = timeframe

Decision(allowed, action, states) ==
    [allowed |-> allowed, action |-> action, states |-> states]

\* should_allow_signal(symbol, signal_type, timeframe, timestamp) on the dict
\* `states`: the decision and the dict it leaves.
MultiTimeframeSuppressionManager_should_allow_signal_top(states, symbol, signal_type, timeframe, timestamp) ==
    LET state_key == get_state_key(symbol, signal_type)
    IN  IF timeframe = cascade_order[Len(cascade_order)]
        THEN Decision(TRUE, "allow_top", states)
        ELSE IF state_key \notin DOMAIN states
        THEN Decision(TRUE, "allow_initial", states)
        ELSE LET last_timeframe == states[state_key].timeframe
                 time_diff == timestamp - states[state_key].timestamp
             IN  IF time_diff > suppression_window
                 THEN Decision(TRUE, "allow_expired", states)
                 ELSE IF ~InCascade(timeframe) \/ ~InCascade(last_timeframe)
                 THEN Decision(TRUE, "allow_unknown", states)
                 ELSE IF index(timeframe) <= index(last_timeframe)
                 THEN Decision(FALSE, "suppress", states)
                 ELSE Decision(TRUE, "allow_escalation", states)

MultiTimeframeSuppressionManager_should_allow_signal_no_lower(states, symbol, signal_type, timeframe, timestamp) ==
    LET state_key == get_state_key(symbol, signal_type)
    IN  IF state_key \notin DOMAIN states
        THEN Decision(TRUE, "allow_initial", states)
        ELSE LET last_timeframe == states[state_key].timeframe
                 time_diff == timestamp - states[state_key].timestamp
             IN  IF time_diff > suppression_window
                 THEN Decision(TRUE, "allow_expired", states)
                 ELSE IF ~InCascade(timeframe) \/ ~InCascade(last_timeframe)
                 THEN Decision(TRUE, "allow_unknown", states)
                 ELSE IF timeframe = last_timeframe
                 THEN Decision(FALSE, "suppress_same_tf", states)
                 ELSE Decision(TRUE, "allow_default", states)

MultiTimeframeSuppressionManager_should_allow_signal_recording(states, symbol, signal_type, timeframe, timestamp) ==
    LET state_key == get_state_key(symbol, signal_type)
        written == Put(states, state_key,
                       [timeframe |-> timeframe, timestamp |-> timestamp,
                        recorded_at |-> timestamp])
    IN  IF state_key \notin DOMAIN states
        THEN Decision(TRUE, "allow_initial", written)
        ELSE LET last_timeframe == states[state_key].timeframe
                 time_diff == timestamp - states[state_key].timestamp
             IN  IF time_diff > suppression_window
                 THEN Decision(TRUE, "allow_expired", written)
                 ELSE IF ~InCascade(timeframe) \/ ~InCascade(last_timeframe)
                 THEN Decision(TRUE, "allow_unknown", written)
                 ELSE IF timeframe = last_timeframe
                 THEN Decision(FALSE, "suppress_same_tf", states)
                 ELSE IF index(timeframe) < index(last_timeframe)
                 THEN Decision(FALSE, "suppress_lower_tf", states)
                 ELSE Decision(TRUE, "allow_escalation", written)

MultiTimeframeSuppressionManager_should_allow_signal_no_expiry(states, symbol, signal_type, timeframe, timestamp) ==
    LET state_key == get_state_key(symbol, signal_type)
    IN  IF state_key \notin DOMAIN states
        THEN Decision(TRUE, "allow_initial", states)
        ELSE LET last_timeframe == states[state_key].timeframe
             IN  IF ~InCascade(timeframe) \/ ~InCascade(last_timeframe)
                 THEN Decision(TRUE, "allow_unknown", states)
                 ELSE IF timeframe = last_timeframe
                 THEN Decision(FALSE, "suppress_same_tf", states)
                 ELSE IF index(timeframe) < index(last_timeframe)
                 THEN Decision(FALSE, "suppress_lower_tf", states)
                 ELSE Decision(TRUE, "allow_escalation", states)

MultiTimeframeSuppressionManager_should_allow_signal_unknown_suppressed(states, symbol, signal_type, timeframe, timestamp) ==
    LET state_key == get_state_key(symbol, signal_type)
    IN  IF state_key \notin DOMAIN states
        THEN Decision(TRUE, "allow_initial", states)
        ELSE LET last_timeframe == states[state_key].timeframe
                 time_diff == timestamp - states[state_key].timestamp
             IN  IF time_diff > suppression_window
                 THEN Decision(TRUE, "allow_expired", states)
                 ELSE IF ~InCascade(timeframe) \/ ~InCascade(last_timeframe)
                 THEN Decision(FALSE, "suppress_unknown", states)
                 ELSE IF timeframe = last_timeframe
                 THEN Decision(FALSE, "suppress_same_tf", states)
                 ELSE IF index(timeframe) < index(last_timeframe)
                 THEN Decision(FALSE, "suppress_lower_tf", states)
                 ELSE Decision(TRUE, "allow_escalation", states)

MultiTimeframeSuppressionManager_should_allow_signal(states, symbol, signal_type, timeframe, timestamp) ==
    LET state_key == get_state_key(symbol, signal_type)
    IN  IF state_key \notin DOMAIN states
        THEN Decision(TRUE, "allow_initial", states)
        ELSE LET last_timeframe == states[state_key].timeframe
                 time_diff == timestamp - states[state_key].timestamp
             IN  IF time_diff > suppression_window
                 THEN Decision(TRUE, "allow_expired", states)
                 ELSE IF ~InCascade(timeframe) \/ ~InCascade(last_timeframe)
                 THEN Decision(TRUE, "allow_unknown", states)
                 ELSE IF timeframe = last_timeframe
                 THEN Decision(FALSE, "suppress_same_tf", states)
                 ELSE IF index(timeframe) < index(last_timeframe)
                 THEN Decision(FALSE, "suppress_lower_tf", states)
                 ELSE IF index(timeframe) > index(last_timeframe)
                 THEN Decision(TRUE, "allow_escalation", states)
                 ELSE Decision(TRUE, "allow_default", states)

\* record_signal(symbol, signal_type, timeframe, timestamp) at wall-clock t:
\* the dict it leaves (written to the file after the put and again after the
\* delete; the file ends equal to the dict).
MultiTimeframeSuppressionManager_record_signal_keep_opposite(states, symbol, signal_type, timeframe, timestamp, t) ==
    Put(states, get_state_key(symbol, signal_type),
        [timeframe |-> timeframe, timestamp |-> timestamp, recorded_at |-> t])

MultiTimeframeSuppressionManager_record_signal_not_stored(states, symbol, signal_type, timeframe, timestamp, t) ==
    LET opposite_key == get_state_key(symbol, opposite(signal_type))
    IN  IF opposite_key \in DOMAIN states THEN Del(states, opposite_key) ELSE states

MultiTimeframeSuppressionManager_record_signal(states, symbol, signal_type, timeframe, timestamp, t) ==
    LET state_key == get_state_key(symbol, signal_type)
        opposite_key == get_state_key(symbol, opposite(signal_type))
        written == Put(states, state_key,
                       [timeframe |-> timeframe, timestamp |-> timestamp,
                        recorded_at |-> t])
    IN  IF opposite_key \in DOMAIN written THEN Del(written, opposite_key) ELSE written

MultiTimeframeSuppressionManager_save_state(states) == states

\* cleanup_old_states(): the keys it removes at wall-clock t.
MultiTimeframeSuppressionManager_keys_to_remove(states, t) ==
    {key \in DOMAIN states : t - states[key].timestamp > cleanup_threshold}

NoSignal == [pending |-> FALSE]

\* History: how far the calls for BTCUSDT have followed the sequence
\* BUY@6h, BUY@6h, BUY@8h, BUY@8h, BUY@12h, BUY@12h from an empty store, each
\* signal no earlier than and at most 72h after the one before, and what was
\* decided for each.  Any other call for the symbol ends the sequence (stage -1).
EscalationSequence == <<"6h", "6h", "8h", "8h", "12h", "12h">>

Off == [stage |-> -1, stamp |-> 0, decided |-> << >>]

FollowEscalation(e, signal_type, timeframe, timestamp, allowed) ==
    IF e.stage < 0 \/ e.stage >= Len(EscalationSequence)
    THEN Off
    ELSE IF /\ signal_type = "BUY"
            /\ timeframe = EscalationSequence[e.stage + 1]
            /\ e.stage > 0 => /\ timestamp >= e.stamp
                              /\ timestamp - e.stamp <= suppression_window
         THEN [stage |-> e.stage + 1, stamp |-> timestamp,
               decided |-> Append(e.decided, allowed)]
         ELSE Off

\* analyze_coin_for_signals: the gate is asked; an allowed signal is returned
\* to run_analysis, a suppressed one is dropped.
ShouldAllowSignal ==
    /\ program = "analyzer_multi"
    /\ ~signal_result.pending
    /\ \E symbol \in GateSymbols, signal_type \in SignalTypes,
          timeframe \in Timeframes, age \in 0 .. MaxCandleAge :
          LET r == MultiTimeframeSuppressionManager_should_allow_signal(
                       suppression_states, symbol, signal_type, timeframe, now - age)
          IN  /\ suppression_states' = r.states
              /\ state_file' = IF r.states # suppression_states
                               THEN MultiTimeframeSuppressionManager_save_state(r.states)
                               ELSE state_file
              /\ signal_result' = IF r.allowed
                                  THEN [pending |-> TRUE, symbol |-> symbol,
                                        signal_type |-> signal_type,
                                        timeframe |-> timeframe,
                                        timestamp |-> now - age,
                                        suppression_action |-> r.action]
                                  ELSE NoSignal
              /\ escalation' = FollowEscalation(escalation, signal_type, timeframe,
                                                now - age, r.allowed)
              /\ last' = [op |-> "should_allow_signal", symbol |-> symbol,
                          signal_type |-> signal_type, timeframe |-> timeframe,
                          timestamp |-> now - age, at |-> now,
                          allowed |-> r.allowed, action |-> r.action,
                          before |-> suppression_states, before_file |-> state_file]
    /\ UNCHANGED <<now, program, runVars, emaVars, dedupVars, dedup15mVars, dedup30mVars, processVars, latchVars, marked, recent>>

\* run_analysis: the allowed signal is recorded right after it is returned.
RecordSignal ==
    /\ program = "analyzer_multi"
    /\ signal_result.pending
    /\ suppression_states' = MultiTimeframeSuppressionManager_record_signal(
                                 suppression_states, signal_result.symbol,
                                 signal_result.signal_type, signal_result.timeframe,
                                 signal_result.timestamp, now)
    /\ state_file' = MultiTimeframeSuppressionManager_save_state(suppression_states')
    /\ signal_result' = NoSignal
    /\ last' = [op |-> "record_signal", symbol |-> signal_result.symbol,
                signal_type |-> signal_result.signal_type,
                timeframe |-> signal_result.timeframe,
                timestamp |-> signal_result.timestamp, at |-> now,
                suppression_action |-> signal_result.suppression_action,
                before |-> suppression_states, before_file |-> state_file]
    /\ UNCHANGED <<now, program, runVars, emaVars, dedupVars, dedup15mVars, dedup30mVars, processVars, latchVars, escalation, marked, recent>>

\* run_analysis: cleanup_old_states() before the coins are analysed.
CleanupOldStates ==
    /\ program = "analyzer_multi"
    /\ ~signal_result.pending
    /\ LET keys_to_remove == MultiTimeframeSuppressionManager_keys_to_remove(
                                 suppression_states, now)
       IN  /\ suppression_states' = DelAll(suppression_states, keys_to_remove)
           /\ state_file' = IF keys_to_remove # {}
                            THEN MultiTimeframeSuppressionManager_save_state(
                                     suppression_states')
                            ELSE state_file
           /\ last' = [op |-> "cleanup_old_states", at |-> now,
                       before |-> suppression_states, before_file |-> state_file,
                       removed |-> keys_to_remove]
    /\ UNCHANGED <<now, program, runVars, emaVars, signal_result, escalation,
                   dedupVars, dedup15mVars, dedup30mVars, processVars, latchVars, marked, recent>>

\* The next scheduled run starts a day later.
DayTick ==
    /\ ~signal_result.pending
    /\ now < MaxDays * day_hours
    /\ program = "analyzer_12h" => now < MaxMultiDays * day_hours
    /\ now' = now + day_hours
    /\ last' = Idle
    /\ UNCHANGED <<program, runVars, emaVars, dedupVars, dedup15mVars, dedup30mVars, processVars, cascadeVars, latchVars, marked, recent>>

\* Within a day the clock also moves hour by hour, for MaxHours hours.
HourTick ==
    /\ program = "analyzer_multi"
    /\ ~signal_result.pending
    /\ now % day_hours < MaxHours
    /\ now' = now + 1
    /\ last' = Idle
    /\ UNCHANGED <<program, runVars, emaVars, dedupVars, dedup15mVars, dedup30mVars, processVars, cascadeVars, latchVars, marked, recent>>

----------------------------------------------------------------------------
(* MultiTimeframeSuppressor: src/alerts/suppression_multi.py, driven by     *)
(* src/analyzer_12h.py.  Its dict and file are suppression_states and       *)
(* state_file of the behaviours whose program is "analyzer_12h".            *)

reset_hours == 24

states_cleanup_hours == 72

SuppressionLevels == {"none", "6h_suppressed", "8h_suppressed"}

\* _has_recent_6h_opposite_signal(symbol, current_signal_type) at wall-clock t
MultiTimeframeSuppressor_has_recent_6h_opposite_signal(states, symbol, current_signal_type, t) ==
    LET opposite_key == get_state_key(symbol, opposite(current_signal_type))
    IN  /\ opposite_key \in DOMAIN states
        /\ states[opposite_key].last_alerted_timeframe = "6h"
        /\ t - states[opposite_key].last_alert_time < reset_hours

\* the record written for a first or a reset signal
InitialState(signal_type, timeframe, signal_timestamp, t) ==
    [current_direction |-> signal_type, last_alerted_timeframe |-> timeframe,
     last_alert_time |-> signal_timestamp, created_at |-> t,
     suppression_level |-> "none"]

\* state.update({...}) on the record under state_key
Update(states, state_key, fields) ==
    Put(states, state_key,
        [f \in DOMAIN states[state_key] |->
            IF f \in DOMAIN fields THEN fields[f] ELSE states[state_key][f]])

MultiTimeframeSuppressor_cascade_8h_any_level(states, state_key, timeframe, signal_timestamp) ==
    LET last_timeframe == states[state_key].last_alerted_timeframe
        suppression_level == states[state_key].suppression_level
    IN  IF /\ timeframe = "6h"
           /\ suppression_level # "none"
           /\ (suppression_level = "6h_suppressed" \/ last_timeframe = "6h")
        THEN Decision(FALSE, "suppress_6h", states)
        ELSE IF /\ timeframe = "8h"
                /\ last_timeframe = "6h"
        THEN Decision(TRUE, "allow_first_8h",
                      Update(states, state_key,
                             [last_alerted_timeframe |-> "8h",
                              last_alert_time |-> signal_timestamp,
                              suppression_level |-> "6h_suppressed"]))
        ELSE IF timeframe = "8h" /\ last_timeframe = "8h"
        THEN Decision(FALSE, "suppress_8h",
                      Update(states, state_key,
                             [suppression_level |-> "8h_suppressed"]))
        ELSE IF timeframe = "12h"
        THEN Decision(TRUE, "allow_12h",
                      Update(states, state_key,
                             [last_alerted_timeframe |-> "12h",
                              last_alert_time |-> signal_timestamp,
                              suppression_level |-> "8h_suppressed"]))
        ELSE Decision(TRUE, "allow_default",
                      Update(states, state_key,
                             [last_alerted_timeframe |-> timeframe,
                              last_alert_time |-> signal_timestamp]))

\* "Apply cascading suppression logic" of should_alert, for an existing record
MultiTimeframeSuppressor_cascade(states, state_key, timeframe, signal_timestamp) ==
    LET last_timeframe == states[state_key].last_alerted_timeframe
        suppression_level == states[state_key].suppression_level
    IN  IF /\ timeframe = "6h"
           /\ suppression_level # "none"
           /\ (suppression_level = "6h_suppressed" \/ last_timeframe = "6h")
        THEN Decision(FALSE, "suppress_6h", states)
        ELSE IF /\ timeframe = "8h"
                /\ last_timeframe = "6h"
                /\ suppression_level # "8h_suppressed"
        THEN Decision(TRUE, "allow_first_8h",
                      Update(states, state_key,
                             [last_alerted_timeframe |-> "8h",
                              last_alert_time |-> signal_timestamp,
                              suppression_level |-> "6h_suppressed"]))
        ELSE IF timeframe = "8h" /\ last_timeframe = "8h"
        THEN Decision(FALSE, "suppress_8h",
                      Update(states, state_key,
                             [suppression_level |-> "8h_suppressed"]))
        ELSE IF timeframe = "12h"
        THEN Decision(TRUE, "allow_12h",
                      Update(states, state_key,
                             [last_alerted_timeframe |-> "12h",
                              last_alert_time |-> signal_timestamp,
                              suppression_level |-> "8h_suppressed"]))
        ELSE Decision(TRUE, "allow_default",
                      Update(states, state_key,
                             [last_alerted_timeframe |-> timeframe,
                              last_alert_time |-> signal_timestamp]))

\* should_alert(symbol, signal_type, timeframe, signal_timestamp) at wall-clock
\* t on the dict `states`: the decision and the dict it leaves (and saves).
MultiTimeframeSuppressor_should_alert_no_reset(states, symbol, signal_type, timeframe, signal_timestamp, t) ==
    LET state_key == get_state_key(symbol, signal_type)
    IN  IF state_key \notin DOMAIN states
        THEN Decision(TRUE, "allow_initial",
                      Put(states, state_key,
                          InitialState(signal_type, timeframe, signal_timestamp, t)))
        ELSE MultiTimeframeSuppressor_cascade(states, state_key, timeframe,
                                              signal_timestamp)

MultiTimeframeSuppressor_should_alert_12h_once(states, symbol, signal_type, timeframe, signal_timestamp, t) ==
    LET state_key == get_state_key(symbol, signal_type)
    IN  IF state_key \notin DOMAIN states
        THEN Decision(TRUE, "allow_initial",
                      Put(states, state_key,
                          InitialState(signal_type, timeframe, signal_timestamp, t)))
        ELSE IF MultiTimeframeSuppressor_has_recent_6h_opposite_signal(
                    states, symbol, signal_type, t)
        THEN Decision(TRUE, "opposite_reset",
                      Put(states, state_key,
                          InitialState(signal_type, timeframe, signal_timestamp, t)))
        ELSE IF timeframe = "12h" /\ states[state_key].last_alerted_timeframe = "12h"
        THEN Decision(FALSE, "suppress_12h", states)
        ELSE MultiTimeframeSuppressor_cascade(states, state_key, timeframe,
                                              signal_timestamp)

MultiTimeframeSuppressor_should_alert_reset_consumed(states, symbol, signal_type, timeframe, signal_timestamp, t) ==
    LET state_key == get_state_key(symbol, signal_type)
        opposite_key == get_state_key(symbol, opposite(signal_type))
    IN  IF state_key \notin DOMAIN states
        THEN Decision(TRUE, "allow_initial",
                      Put(states, state_key,
                          InitialState(signal_type, timeframe, signal_timestamp, t)))
        ELSE IF MultiTimeframeSuppressor_has_recent_6h_opposite_signal(
                    states, symbol, signal_type, t)
        THEN Decision(TRUE, "opposite_reset",
                      Del(Put(states, state_key,
                              InitialState(signal_type, timeframe, signal_timestamp, t)),
                          opposite_key))
        ELSE MultiTimeframeSuppressor_cascade(states, state_key, timeframe,
                                              signal_timestamp)

MultiTimeframeSuppressor_should_alert(states, symbol, signal_type, timeframe, signal_timestamp, t) ==
    LET state_key == get_state_key(symbol, signal_type)
    IN  IF state_key \notin DOMAIN states
        THEN Decision(TRUE, "allow_initial",
                      Put(states, state_key,
                          InitialState(signal_type, timeframe, signal_timestamp, t)))
        ELSE IF MultiTimeframeSuppressor_has_recent_6h_opposite_signal(
                    states, symbol, signal_type, t)
        THEN Decision(TRUE, "opposite_reset",
                      Put(states, state_key,
                          InitialState(signal_type, timeframe, signal_timestamp, t)))
        ELSE MultiTimeframeSuppressor_cascade(states, state_key, timeframe,
                                              signal_timestamp)

MultiTimeframeSuppressor_save_states(states) == states

\* cleanup_old_states(): the keys it removes at wall-clock t; the except
\* branch (ValueError, TypeError, KeyError) removes the invalid entries.
MultiTimeframeSuppressor_old_keys(states, t) ==
    {key \in DOMAIN states : \/ ~Parses(states[key], "created_at")
                             \/ states[key].created_at < t - states_cleanup_hours}

\* analyze_coin of analyzer_12h.py: should_alert for a detected signal.
ShouldAlert ==
    /\ program = "analyzer_12h"
    /\ \E symbol \in GateSymbols, signal_type \in SignalTypes,
          timeframe \in Timeframes, age \in 0 .. MaxAlertAge :
          LET r == MultiTimeframeSuppressor_should_alert(
                       suppression_states, symbol, signal_type, timeframe,
                       now - age, now)
          IN  /\ suppression_states' = r.states
              /\ state_file' = IF r.states # suppression_states
                               THEN MultiTimeframeSuppressor_save_states(r.states)
                               ELSE state_file
              /\ last' = [op |-> "should_alert", symbol |-> symbol,
                          signal_type |-> signal_type, timeframe |-> timeframe,
                          timestamp |-> now - age, at |-> now,
                          allowed |-> r.allowed, action |-> r.action]
    /\ UNCHANGED <<now, program, runVars, emaVars, signal_result, escalation,
                   dedupVars, dedup15mVars, dedup30mVars, processVars, latchVars, marked, recent>>

\* run_analysis of analyzer_12h.py: cleanup_old_states() before the coins.
CleanupOldStatesMulti ==
    /\ program = "analyzer_12h"
    /\ LET old_keys == MultiTimeframeSuppressor_old_keys(suppression_states, now)
       IN  /\ suppression_states' = DelAll(suppression_states, old_keys)
           /\ state_file' = IF old_keys # {}
                            THEN MultiTimeframeSuppressor_save_states(
                                     suppression_states')
                            ELSE state_file
           /\ last' = [op |-> "cleanup_old_states_multi", at |-> now,
                       removed |-> old_keys]
    /\ UNCHANGED <<now, program, runVars, emaVars, signal_result, escalation,
                   dedupVars, dedup15mVars, dedup30mVars, processVars, latchVars, marked, recent>>


\* analyzer_12h is not run for 72 hours.
LongSleep ==
    /\ program = "analyzer_12h"
    /\ now >= MaxMultiDays * day_hours
    /\ now < MaxMultiDays * day_hours + MaxMultiSleep * states_cleanup_hours
    /\ now' = now + states_cleanup_hours
    /\ last' = Idle
    /\ UNCHANGED <<program, runVars, emaVars, dedupVars, dedup15mVars, dedup30mVars, processVars, cascadeVars, latchVars, marked, recent>>

----------------------------------------------------------------------------
(* is_signal_fresh: src/utils/freshness.py, called by analyze_coin of       *)
(* src/analyzer_12h.py ('12h') and src/analyzer_15m_cto.py ('15m').         *)
(* Ages are whole minutes.                                                  *)

MaxAgeMinutes == 800     \* signal ages run from -MaxFutureMinutes to MaxAgeMinutes
MaxFutureMinutes == 2    \* a candle timestamp can lie this far ahead of the clock

AgeMinutes == (0 - MaxFutureMinutes) .. MaxAgeMinutes

FreshnessTimeframes == {"30m", "6h", "8h", "12h", "15m", "4h"}

freshness_limits == [tf \in {"30m", "6h", "8h", "12h"} |->
                        CASE tf = "30m" -> 45
                          [] tf = "6h"  -> 420
                          [] tf = "8h"  -> 540
                          [] tf = "12h" -> 780]

default_limit == 45

\* freshness_limits.get(timeframe, 45)
max_age_minutes(timeframe) ==
    IF timeframe \in DOMAIN freshness_limits
    THEN freshness_limits[timeframe]
    ELSE default_limit

\* is_signal_fresh(signal_time_utc, timeframe) for a signal
\* signal_age_minutes old
is_signal_fresh_strict(signal_age_minutes, timeframe) ==
    signal_age_minutes < max_age_minutes(timeframe)

is_signal_fresh_known_only(signal_age_minutes, timeframe) ==
    /\ timeframe \in DOMAIN freshness_limits
    /\ signal_age_minutes <= freshness_limits[timeframe]

is_signal_fresh_not_future(signal_age_minutes, timeframe) ==
    /\ signal_age_minutes >= 0
    /\ signal_age_minutes <= max_age_minutes(timeframe)

is_signal_fresh(signal_age_minutes, timeframe) ==
    signal_age_minutes <= max_age_minutes(timeframe)

\* analyze_coin: the freshness check on the latest candle's timestamp.
CheckFreshness ==
    /\ program = "freshness"
    /\ \E timeframe \in FreshnessTimeframes, signal_age_minutes \in AgeMinutes :
          last' = [op |-> "is_signal_fresh", timeframe |-> timeframe,
                   signal_age_minutes |-> signal_age_minutes,
                   fresh |-> is_signal_fresh(signal_age_minutes, timeframe)]
    /\ UNCHANGED <<now, program, runVars, emaVars, dedupVars, dedup15mVars, dedup30mVars, processVars, cascadeVars, latchVars,
                   marked, recent>>

----------------------------------------------------------------------------
(* CipherB15MIndicator.analyze (src/cipher_indicator.py) run by the thread  *)
(* pool of CipherB15MAnalyzer.run_analysis (src/cipher_analyzer.py)         *)

NumWorkers == 2          \* analyze() calls that can be in flight together
MaxRuns == 1             \* run_analysis cycles after the first; one hour apart

Workers == 1 .. NumWorkers

freshness_minutes == 15

CandleAges == {freshness_minutes, freshness_minutes + 1}

NoTask == [symbol |-> "", buy_signal |-> FALSE, sell_signal |-> FALSE]

\* stored: the last_signal the call read for its symbol (history)
NoResult == [signal_alert |-> FALSE, signal_type |-> "", reason |-> "", stored |-> ""]

\* is_fresh_signal(timestamps) for a latest candle age_minutes old
is_fresh_signal(age_minutes) == age_minutes <= freshness_minutes

\* load_cache(): the parsed file, or {} when json.load raises
CipherB_load_cache(file) == IF file.readable THEN file.content ELSE EmptyDict

last_signal(c, symbol) == IF symbol \in DOMAIN c THEN c[symbol].last_signal ELSE "none"

\* The direction check of analyze() on the loaded cache c at time t: whether
\* to alert, for which direction, and the cache to save.
CipherB_direction_check_always(c, symbol, buy_signal, sell_signal, t) ==
    LET signal_type == IF buy_signal THEN "buy" ELSE "sell"
    IN  [should_alert |-> TRUE, signal_type |-> signal_type,
         cache |-> Put(c, symbol, [last_signal |-> signal_type, last_alert_time |-> t])]

CipherB_direction_check_sell_fallback(c, symbol, buy_signal, sell_signal, t) ==
    IF buy_signal /\ last_signal(c, symbol) # "buy"
    THEN [should_alert |-> TRUE, signal_type |-> "buy",
          cache |-> Put(c, symbol, [last_signal |-> "buy", last_alert_time |-> t])]
    ELSE IF sell_signal /\ last_signal(c, symbol) # "sell"
         THEN [should_alert |-> TRUE, signal_type |-> "sell",
               cache |-> Put(c, symbol, [last_signal |-> "sell", last_alert_time |-> t])]
         ELSE [should_alert |-> FALSE, signal_type |-> "", cache |-> c]

CipherB_direction_check(c, symbol, buy_signal, sell_signal, t) ==
    IF buy_signal
    THEN IF last_signal(c, symbol) # "buy"
         THEN [should_alert |-> TRUE, signal_type |-> "buy",
               cache |-> Put(c, symbol, [last_signal |-> "buy", last_alert_time |-> t])]
         ELSE [should_alert |-> FALSE, signal_type |-> "", cache |-> c]
    ELSE IF sell_signal /\ last_signal(c, symbol) # "sell"
         THEN [should_alert |-> TRUE, signal_type |-> "sell",
               cache |-> Put(c, symbol, [last_signal |-> "sell", last_alert_time |-> t])]
         ELSE [should_alert |-> FALSE, signal_type |-> "", cache |-> c]

InFlight == {w \in Workers : pc[w] \notin {"idle", "done"}}

\* History kept when analyze() returns.
NoteAnalyze(w, res) ==
    /\ last' = [op |-> "analyze", worker |-> w, symbol |-> task[w].symbol,
                buy_signal |-> task[w].buy_signal,
                sell_signal |-> task[w].sell_signal,
                signal_alert |-> res.signal_alert, signal_type |-> res.signal_type,
                reason |-> res.reason, at |-> now, stored |-> res.stored,
                had_recent |-> task[w].symbol \in DOMAIN recent,
                recent |-> IF task[w].symbol \in DOMAIN recent
                           THEN recent[task[w].symbol] ELSE NoRecent]
    /\ recent' = IF res.signal_alert
                 THEN Put(recent, task[w].symbol,
                          [signal_type |-> res.signal_type, at |-> now])
                 ELSE recent

\* executor.submit(analyze_coin, coin): one of the max_workers pool threads
\* starts analyze(); the checks that precede load_cache() read nothing shared.
AnalyzeStart(w) ==
    /\ program = "cipher_analyzer"
    /\ pc[w] = "idle"
    /\ w <= max_workers
    /\ \E symbol \in Symbols, enough \in BOOLEAN, age_minutes \in CandleAges,
          buy_signal \in BOOLEAN, sell_signal \in BOOLEAN :
          LET t == [symbol |-> symbol, buy_signal |-> buy_signal,
                    sell_signal |-> sell_signal]
              reason == IF ~enough THEN "insufficient_data"
                        ELSE IF ~is_fresh_signal(age_minutes) THEN "stale_data"
                        ELSE IF ~buy_signal /\ ~sell_signal THEN "no_signal"
                        ELSE ""
          IN  /\ task' = [task EXCEPT ![w] = t]
              /\ analysed' = [analysed EXCEPT
                                 ![symbol] = IF @ < 2 THEN @ + 1 ELSE @]
              /\ IF reason # ""
                 THEN /\ pc' = [pc EXCEPT ![w] = "done"]
                      /\ result' = [result EXCEPT ![w] =
                             [signal_alert |-> FALSE, signal_type |-> "",
                              reason |-> reason, stored |-> ""]]
                      /\ last' = [op |-> "analyze", worker |-> w, symbol |-> symbol,
                                  buy_signal |-> buy_signal,
                                  sell_signal |-> sell_signal,
                                  signal_alert |-> FALSE, signal_type |-> "",
                                  reason |-> reason, at |-> now, stored |-> "",
                                  had_recent |-> symbol \in DOMAIN recent,
                                  recent |-> IF symbol \in DOMAIN recent
                                             THEN recent[symbol] ELSE NoRecent]
                      /\ UNCHANGED concurrent
                 ELSE /\ pc' = [pc EXCEPT ![w] = "load_cache"]
                      /\ concurrent' = [v \in Workers |->
                             IF v = w THEN InFlight
                             ELSE IF v \in InFlight THEN concurrent[v] \cup {w}
                             ELSE concurrent[v]]
                      /\ last' = Idle
                      /\ UNCHANGED result
    /\ UNCHANGED <<now, program, runVars, emaVars, max_workers, alerts_file, local, marked, recent,
                   dedupVars, dedup15mVars, dedup30mVars, processVars, cascadeVars>>

\* cache = self.load_cache(), then the direction check on the local copy.
LoadCache(w) ==
    /\ pc[w] = "load_cache"
    /\ LET loaded == CipherB_load_cache(alerts_file)
           d == CipherB_direction_check(loaded, task[w].symbol, task[w].buy_signal,
                                        task[w].sell_signal, now)
       IN  IF d.should_alert
           THEN /\ pc' = [pc EXCEPT ![w] = "save_cache"]
                /\ local' = [local EXCEPT ![w] = d.cache]
                /\ result' = [result EXCEPT ![w] =
                       [signal_alert |-> TRUE, signal_type |-> d.signal_type,
                        reason |-> "valid_signal",
                        stored |-> last_signal(loaded, task[w].symbol)]]
                /\ last' = Idle
                /\ UNCHANGED recent
           ELSE /\ pc' = [pc EXCEPT ![w] = "done"]
                /\ result' = [result EXCEPT ![w] =
                       [signal_alert |-> FALSE, signal_type |-> "",
                        reason |-> "same_direction_blocked",
                        stored |-> last_signal(loaded, task[w].symbol)]]
                /\ NoteAnalyze(w, result'[w])
                /\ UNCHANGED local
    /\ UNCHANGED <<now, program, runVars, emaVars, max_workers, alerts_file, task, concurrent,
                   analysed, marked, dedupVars, dedup15mVars, dedup30mVars, processVars, cascadeVars>>

\* save_cache(): open(cache_file, 'w') truncates the file.
OpenCacheFile(w) ==
    /\ pc[w] = "save_cache"
    /\ alerts_file' = [readable |-> FALSE, content |-> EmptyDict]
    /\ pc' = [v \in Workers |-> IF v = w THEN "dump" ELSE pc[v]]
    /\ last' = Idle
    /\ UNCHANGED <<now, program, runVars, emaVars, max_workers, task, local, result, concurrent,
                   analysed, marked, recent, dedupVars, dedup15mVars, dedup30mVars, processVars, cascadeVars>>

\* save_cache(): json.dump and close write the local dict from offset 0.  A
\* writer that finds another's text already there ("dump_over") overwrites
\* it; what it leaves parses only if its own text is not the shorter one.
DumpCache(w) ==
    /\ pc[w] \in {"dump", "dump_over"}
    /\ \/ alerts_file' = [readable |-> TRUE, content |-> local[w]]
       \/ /\ pc[w] = "dump_over"
          /\ alerts_file' = [readable |-> FALSE, content |-> EmptyDict]
    /\ pc' = [v \in Workers |->
                 IF v = w THEN "done"
                 ELSE IF pc[v] = "dump" THEN "dump_over" ELSE pc[v]]
    /\ NoteAnalyze(w, result[w])
    /\ UNCHANGED <<now, program, runVars, emaVars, max_workers, task, local, result, concurrent,
                   analysed, marked, dedupVars, dedup15mVars, dedup30mVars, processVars, cascadeVars>>

\* as_completed(futures): run_analysis takes the result of a finished call.
CollectResult(w) ==
    /\ pc[w] = "done"
    /\ pc' = [pc EXCEPT ![w] = "idle"]
    /\ task' = [task EXCEPT ![w] = NoTask]
    /\ local' = [local EXCEPT ![w] = EmptyDict]
    /\ result' = [result EXCEPT ![w] = NoResult]
    /\ concurrent' = [v \in Workers |-> IF v = w THEN {} ELSE concurrent[v] \ {w}]
    /\ last' = Idle
    /\ UNCHANGED <<now, program, runVars, emaVars, max_workers, alerts_file, analysed, marked, recent,
                   dedupVars, dedup15mVars, dedup30mVars, processVars, cascadeVars>>

\* The next scheduled run_analysis starts once the pool has drained.
NextRun ==
    /\ program = "cipher_analyzer"
    /\ \A w \in Workers : pc[w] = "idle"
    /\ now < MaxRuns
    /\ now' = now + 1
    /\ analysed' = [symbol \in Symbols |-> 0]
    /\ last' = Idle
    /\ UNCHANGED <<program, runVars, emaVars, max_workers, alerts_file, pc, task, local, result,
                   concurrent, marked, recent, dedupVars, dedup15mVars, dedup30mVars, processVars, cascadeVars>>

----------------------------------------------------------------------------
(* Restart: the analyzer process ends and the next one constructs its gate  *)
(* from the file (__init__ calls load_cache / load_state / load_states).    *)

\* SignalDeduplicator.load_cache(): json.load, then fromisoformat of every value
SignalDeduplicator_load_cache(file) == [key \in DOMAIN file |-> file[key]]

\* MultiTimeframeSuppressionManager.load_state(): json.load
MultiTimeframeSuppressionManager_load_state(file) == file

\* MultiTimeframeSuppressor.load_states(): json.load
MultiTimeframeSuppressor_load_states(file) == file

RestartPrograms == {"analyzer_15m_cto_shared", "analyzer_multi", "analyzer_12h"}

\* the dict a restarted process of `program` builds from its file
LoadedGate ==
    CASE program = "analyzer_15m_cto_shared" -> SignalDeduplicator_load_cache(cache_file)
      [] program = "analyzer_multi" ->
             MultiTimeframeSuppressionManager_load_state(state_file)
      [] program = "analyzer_12h" -> MultiTimeframeSuppressor_load_states(state_file)

\* the dict the running process of `program` holds
GateInMemory ==
    CASE program = "analyzer_15m_cto_shared" -> cache
      [] program \in {"analyzer_multi", "analyzer_12h"} -> suppression_states

Restart ==
    /\ program \in RestartPrograms
    /\ ~signal_result.pending
    /\ cache' = IF program = "analyzer_15m_cto_shared" THEN LoadedGate ELSE cache
    /\ suppression_states' = IF program = "analyzer_15m_cto_shared"
                             THEN suppression_states ELSE LoadedGate
    /\ last' = [op |-> "restart", at |-> now, before |-> GateInMemory]
    /\ UNCHANGED <<now, program, runVars, emaVars, cache_file, state_file, signal_result, escalation,
                   dedup15mVars, dedup30mVars, processVars, latchVars, marked, recent>>

----------------------------------------------------------------------------
(* Two analyzer processes on one state file: each constructs its own        *)
(* MultiTimeframeSuppressor (Analyzer12h.__init__), which loads the file    *)
(* once, and every save_states() rewrites the whole file from its own dict. *)

NumProcesses == 2        \* analyzer processes alive at the same time

ProcessIds == 1 .. NumProcesses

SharedTimeframes == {"6h", "12h"}

NotRunning == [running |-> FALSE, suppression_states |-> EmptyDict]

\* python analyzer_12h.py: the process starts and constructs its suppressor
StartProcess(p) ==
    /\ program = "analyzers_shared_store"
    /\ ~processes[p].running
    /\ processes' = [processes EXCEPT ![p] =
                        [running |-> TRUE,
                         suppression_states |->
                             MultiTimeframeSuppressor_load_states(state_file)]]
    /\ last' = [op |-> "start", process |-> p]
    /\ UNCHANGED <<now, program, runVars, emaVars, dedupVars, dedup15mVars, dedup30mVars, cascadeVars,
                   latchVars, marked, recent>>

\* analyze_coin in process p: should_alert on the process's own dict
ShouldAlertIn(p) ==
    /\ program = "analyzers_shared_store"
    /\ processes[p].running
    /\ \E symbol \in GateSymbols, signal_type \in SignalTypes,
          timeframe \in SharedTimeframes :
          LET r == MultiTimeframeSuppressor_should_alert(
                       processes[p].suppression_states, symbol, signal_type,
                       timeframe, now, now)
          IN  /\ processes' = [processes EXCEPT ![p].suppression_states = r.states]
              /\ state_file' = IF r.states # processes[p].suppression_states
                               THEN MultiTimeframeSuppressor_save_states(r.states)
                               ELSE state_file
              /\ last' = [op |-> "should_alert", process |-> p, symbol |-> symbol,
                          signal_type |-> signal_type, timeframe |-> timeframe,
                          timestamp |-> now, at |-> now,
                          allowed |-> r.allowed, action |-> r.action]
    /\ UNCHANGED <<now, program, runVars, emaVars, suppression_states, signal_result, escalation,
                   dedupVars, dedup15mVars, dedup30mVars, latchVars, marked, recent>>

\* run_analysis returns and the process ends
ExitProcess(p) ==
    /\ program = "analyzers_shared_store"
    /\ processes[p].running
    /\ processes' = [processes EXCEPT ![p] = NotRunning]
    /\ last' = [op |-> "exit", process |-> p]
    /\ UNCHANGED <<now, program, runVars, emaVars, dedupVars, dedup15mVars, dedup30mVars, cascadeVars,
                   latchVars, marked, recent>>

----------------------------------------------------------------------------
(* Specifications: every gate starts fresh (no cache file yet) *)

\* no second analyzer process shares the state file
NoProcesses == << >>

\* load_config's fallback and get_active_analysis's default: 21/50, 12 hours
default_analysis == [ema_short |-> 21, ema_long |-> 50, cooldown_hours |-> 12]

\* last_config_check = 0 is time.time() of 1970, in hours before the model's hour 0
unix_epoch == 0 - 490000

\* os.path.exists(cache_file) is false for every EMA cache file
NoEmaFiles == << >>

\* run_analysis of analyzer_6h.py is not running; `failed` holds the signals
\* of the latest run when their consolidated alert was not delivered
NoRun == [phase |-> "idle", todo |-> {}, valid_signals |-> {}, failed |-> {}, failed_at |-> 0]

InitCommon ==
    /\ now = 0
    /\ cache = EmptyDict
    /\ cache_file = EmptyDict
    /\ signal_cache = EmptyDict
    /\ signal_cache_file = EmptyDict
    /\ signal_history = EmptyDict
    /\ history_file = EmptyDict
    /\ processes = NoProcesses
    /\ ema_files = NoEmaFiles
    /\ ema_config = default_analysis
    /\ active_analysis = default_analysis
    /\ last_config_check = unix_epoch
    /\ run6h = NoRun
    /\ suppression_states = EmptyDict
    /\ state_file = EmptyDict
    /\ signal_result = NoSignal
    /\ escalation = [stage |-> 0, stamp |-> 0, decided |-> << >>]
    /\ alerts_file = [readable |-> TRUE, content |-> EmptyDict]
    /\ pc = [w \in Workers |-> "idle"]
    /\ task = [w \in Workers |-> NoTask]
    /\ local = [w \in Workers |-> EmptyDict]
    /\ result = [w \in Workers |-> NoResult]
    /\ concurrent = [w \in Workers |-> {}]
    /\ analysed = [symbol \in Symbols |-> 0]
    /\ last = Idle
    /\ marked = Unmarked
    /\ recent = EmptyDict

InitCooldown ==
    /\ InitCommon
    /\ max_workers = 1
    /\ program \in {"analyzer_15m_cto_shared", "analyzer_15m_cto"}

NextCooldown ==
    \/ Tick
    \/ Sleep
    \/ IsSignalAllowed
    \/ CleanupOldRecords
    \/ IsSignalAllowed15m
    \/ CleanupOldSignals

SpecCooldown == InitCooldown /\ [][NextCooldown]_vars

InitCooldown30m ==
    /\ InitCommon
    /\ max_workers = 1
    /\ program = "analyzer_30m"

NextCooldown30m ==
    \/ Tick
    \/ Sleep
    \/ IsSignalAllowed30m
    \/ CleanupOldSignals30m

SpecCooldown30m == InitCooldown30m /\ [][NextCooldown30m]_vars

InitCascade ==
    /\ InitCommon
    /\ max_workers = 1
    /\ program = "analyzer_multi"

NextCascade ==
    \/ DayTick
    \/ HourTick
    \/ ShouldAllowSignal
    \/ RecordSignal
    \/ CleanupOldStates

SpecCascade == InitCascade /\ [][NextCascade]_vars

InitSuppressor ==
    /\ InitCommon
    /\ max_workers = 1
    /\ program = "analyzer_12h"

NextSuppressor ==
    \/ DayTick
    \/ LongSleep
    \/ ShouldAlert
    \/ CleanupOldStatesMulti

SpecSuppressor == InitSuppressor /\ [][NextSuppressor]_vars

InitCascading ==
    /\ InitCommon
    /\ max_workers = 1
    /\ program \in {"analyzer_multi", "analyzer_12h"}

NextCascading ==
    \/ DayTick
    \/ HourTick
    \/ LongSleep
    \/ ShouldAllowSignal
    \/ RecordSignal
    \/ CleanupOldStates
    \/ ShouldAlert
    \/ CleanupOldStatesMulti

\* Both cascading suppressors, each in the behaviours of its own analyzer.
SpecCascading == InitCascading /\ [][NextCascading]_vars

InitFreshness ==
    /\ InitCommon
    /\ max_workers = 1
    /\ program = "freshness"

NextFreshness == CheckFreshness

SpecFreshness == InitFreshness /\ [][NextFreshness]_vars

InitLatch ==
    /\ InitCommon
    /\ program = "cipher_analyzer"
    /\ max_workers = NumWorkers

NextLatch ==
    \/ NextRun
    \/ \E w \in Workers : AnalyzeStart(w)
    \/ \E w \in Workers : LoadCache(w)
    \/ \E w \in Workers : OpenCacheFile(w)
    \/ \E w \in Workers : DumpCache(w)
    \/ \E w \in Workers : CollectResult(w)

\* The thread pool of run_analysis.
SpecLatch == InitLatch /\ [][NextLatch]_vars

InitLatchSeq ==
    /\ InitCommon
    /\ program = "cipher_analyzer"
    /\ max_workers = 1

\* analyze() called sequentially (max_workers: 1).
SpecLatchSeq == InitLatchSeq /\ [][NextLatch]_vars

CooldownPrograms == {"analyzer_15m_cto_shared", "analyzer_15m_cto", "analyzer_30m"}

CascadePrograms == {"analyzer_multi", "analyzer_12h"}

InitGates ==
    /\ InitCommon
    /\ max_workers = 1
    /\ program \in CooldownPrograms \cup CascadePrograms \cup {"cipher_analyzer"}

\* the clocks, each for the analyzers it is the clock of
CooldownTick == program \in CooldownPrograms /\ Tick

CooldownSleep == program \in CooldownPrograms /\ Sleep

CascadeDayTick == program \in CascadePrograms /\ DayTick

NextGates ==
    \/ CooldownTick
    \/ CooldownSleep
    \/ IsSignalAllowed
    \/ CleanupOldRecords
    \/ IsSignalAllowed15m
    \/ CleanupOldSignals
    \/ IsSignalAllowed30m
    \/ CleanupOldSignals30m
    \/ CascadeDayTick
    \/ HourTick
    \/ LongSleep
    \/ ShouldAllowSignal
    \/ RecordSignal
    \/ CleanupOldStates
    \/ ShouldAlert
    \/ CleanupOldStatesMulti
    \/ NextLatch

\* Every gate of the repository, each in the behaviours of its own analyzer
\* (the direction latch called one analyze() at a time).
SpecGates == InitGates /\ [][NextGates]_vars

InitRestart ==
    /\ InitCommon
    /\ max_workers = 1
    /\ program \in RestartPrograms

NextRestart ==
    \/ CooldownTick
    \/ CooldownSleep
    \/ IsSignalAllowed
    \/ CleanupOldRecords
    \/ CascadeDayTick
    \/ HourTick
    \/ LongSleep
    \/ ShouldAllowSignal
    \/ RecordSignal
    \/ CleanupOldStates
    \/ ShouldAlert
    \/ CleanupOldStatesMulti
    \/ Restart

\* The gates that persist to a file of their own, with process restarts.
SpecRestart == InitRestart /\ [][NextRestart]_vars

InitShared ==
    /\ now = 0
    /\ program = "analyzers_shared_store"
    /\ max_workers = 1
    /\ cache = EmptyDict /\ cache_file = EmptyDict
    /\ signal_cache = EmptyDict /\ signal_cache_file = EmptyDict
    /\ signal_history = EmptyDict /\ history_file = EmptyDict
    /\ processes = [p \in ProcessIds |-> NotRunning]
    /\ ema_files = NoEmaFiles /\ ema_config = default_analysis
    /\ active_analysis = default_analysis /\ last_config_check = unix_epoch
    /\ run6h = NoRun
    /\ suppression_states = EmptyDict /\ state_file = EmptyDict
    /\ signal_result = NoSignal
    /\ escalation = [stage |-> 0, stamp |-> 0, decided |-> << >>]
    /\ alerts_file = [readable |-> TRUE, content |-> EmptyDict]
    /\ pc = [w \in Workers |-> "idle"]
    /\ task = [w \in Workers |-> NoTask]
    /\ local = [w \in Workers |-> EmptyDict]
    /\ result = [w \in Workers |-> NoResult]
    /\ concurrent = [w \in Workers |-> {}]
    /\ analysed = [symbol \in Symbols |-> 0]
    /\ last = Idle
    /\ marked = Unmarked
    /\ recent = EmptyDict

NextShared ==
    \/ \E p \in ProcessIds : StartProcess(p)
    \/ \E p \in ProcessIds : ShouldAlertIn(p)
    \/ \E p \in ProcessIds : ExitProcess(p)

\* Analyzer processes that overlap in time on cache/suppression_multi.json.
SpecShared == InitShared /\ [][NextShared]_vars

----------------------------------------------------------------------------
(* Writing the store can fail: `with open(file, 'w') as f: json.dump(...)`  *)
(* raises OSError when the directory is read-only or the disk is full.      *)

\* open(..., 'w') + json.dump(content): the file afterwards. A failed open
\* leaves the file alone; a dump that fails after the open leaves a truncated
\* file, which every load_* reads as the empty dict.
WriteJson(file, content, write_ok, truncated) ==
    IF write_ok THEN content
    ELSE IF truncated THEN EmptyDict ELSE file

\* What a gate call hands to its caller when its store is written with
\* `swallows` telling whether the save method wraps the write in
\* try/except Exception: the call raises exactly when an unguarded write fails.
GateCall(r, swallows, write_ok) ==
    LET failed == r.saved /\ ~write_ok
    IN  [decided |-> r.allowed, write_failed |-> failed,
         raised |-> failed /\ ~swallows,
         returned |-> r.allowed /\ ~(failed /\ ~swallows)]

\* `except Exception as e: print(...); return None` around the body of
\* analyze_coin: the signal is returned (and alerted) only if the gate call
\* returned True; the coin loop of run_analysis goes on either way.
NoteAnalyzeCoin(gate, symbol, signal_type, call) ==
    last' = [op |-> "analyze_coin", gate |-> gate, symbol |-> symbol,
             signal_type |-> signal_type, at |-> now,
             decided |-> call.decided, write_failed |-> call.write_failed,
             raised |-> call.raised, alerted |-> call.returned,
             next_symbol |-> TRUE]

\* apply_confirmation_logic of system-15m/analyzer_15m_cto.py:
\* SignalDeduplicator.save_cache catches the failure and the call returns.
AnalyzeCoinShared ==
    /\ program = "analyzer_15m_cto_shared"
    /\ \E symbol \in GateSymbols, signal_type \in SignalTypes, age \in SignalAges,
          write_ok \in BOOLEAN, truncated \in BOOLEAN :
          LET r == SignalDeduplicator_is_signal_allowed(
                       cache, symbol, signal_type, now - age, now)
          IN  /\ cache' = r.cache
              /\ cache_file' = IF r.saved
                               THEN WriteJson(cache_file,
                                              SignalDeduplicator_save_cache(r.cache),
                                              write_ok, truncated)
                               ELSE cache_file
              /\ NoteAnalyzeCoin("SignalDeduplicator", symbol, signal_type,
                                 GateCall(r, TRUE, write_ok))
    /\ UNCHANGED <<now, program, runVars, emaVars, dedup15mVars, dedup30mVars, processVars,
                   cascadeVars, latchVars, marked, recent>>

\* analyze_coin of analyzer_15m_cto.py: Deduplicator15m.save_cache has no
\* try/except; signal_cache[symbol_key] is assigned before it is called.
AnalyzeCoin15m ==
    /\ program = "analyzer_15m_cto"
    /\ \E symbol \in GateSymbols, signal_type \in SignalTypes, age \in SignalAges,
          write_ok \in BOOLEAN, truncated \in BOOLEAN :
          LET r == Deduplicator15m_is_signal_allowed(
                       signal_cache, symbol, signal_type, now - age, now)
          IN  /\ signal_cache' = r.cache
              /\ signal_cache_file' =
                     IF r.saved
                     THEN WriteJson(signal_cache_file,
                                    Deduplicator15m_save_cache(r.cache),
                                    write_ok, truncated)
                     ELSE signal_cache_file
              /\ NoteAnalyzeCoin("Deduplicator15m", symbol, signal_type,
                                 GateCall(r, FALSE, write_ok))
    /\ UNCHANGED <<now, program, runVars, emaVars, dedupVars, dedup30mVars, processVars,
                   cascadeVars, latchVars, marked, recent>>

\* Deduplicator30m.is_signal_allowed under the same `return None` wrapper:
\* save_history has no try/except either.
AnalyzeCoin30m ==
    /\ program = "analyzer_30m"
    /\ \E symbol \in GateSymbols, signal_type \in SignalTypes, age \in SignalAges30m,
          write_ok \in BOOLEAN, truncated \in BOOLEAN :
          LET r == Deduplicator30m_is_signal_allowed(
                       signal_history, symbol, signal_type, now - age, now)
          IN  /\ signal_history' = r.cache
              /\ history_file' =
                     IF r.saved
                     THEN WriteJson(history_file,
                                    Deduplicator30m_save_history(r.cache),
                                    write_ok, truncated)
                     ELSE history_file
              /\ NoteAnalyzeCoin("Deduplicator30m", symbol, signal_type,
                                 GateCall(r, FALSE, write_ok))
    /\ UNCHANGED <<now, program, runVars, emaVars, dedupVars, dedup15mVars, processVars,
                   cascadeVars, latchVars, marked, recent>>

\* Analyzer12h.__init__: self.timeframe
Analyzer12h_timeframe == "12h"

\* analyze_coin of analyzer_12h.py: MultiTimeframeSuppressor.save_states has
\* no try/except; should_alert changes the dict before it saves.
AnalyzeCoin12h ==
    /\ program = "analyzer_12h"
    /\ \E symbol \in GateSymbols, signal_type \in SignalTypes,
          age \in 0 .. MaxAlertAge,
          write_ok \in BOOLEAN, truncated \in BOOLEAN :
          LET r == MultiTimeframeSuppressor_should_alert(
                       suppression_states, symbol, signal_type,
                       Analyzer12h_timeframe, now - age, now)
              saved == r.states # suppression_states
          IN  /\ suppression_states' = r.states
              /\ state_file' =
                     IF saved
                     THEN WriteJson(state_file,
                                    MultiTimeframeSuppressor_save_states(r.states),
                                    write_ok, truncated)
                     ELSE state_file
              /\ NoteAnalyzeCoin("MultiTimeframeSuppressor", symbol, signal_type,
                                 GateCall([allowed |-> r.allowed, saved |-> saved],
                                          FALSE, write_ok))
    /\ UNCHANGED <<now, program, runVars, emaVars, signal_result, escalation, dedupVars,
                   dedup15mVars, dedup30mVars, processVars, latchVars,
                   marked, recent>>

PersistPrograms == CooldownPrograms \cup {"analyzer_12h"}

InitPersist ==
    /\ InitCommon
    /\ max_workers = 1
    /\ program \in PersistPrograms

NextPersist ==
    \/ CooldownTick
    \/ CascadeDayTick
    \/ AnalyzeCoinShared
    \/ AnalyzeCoin15m
    \/ AnalyzeCoin30m
    \/ AnalyzeCoin12h

SpecPersist == InitPersist /\ [][NextPersist]_vars

----------------------------------------------------------------------------
(* A gate constructed from a file it did not write in this run: old,        *)
(* malformed, unparseable or missing.                                       *)

MaxOverdue == 1          \* a stored record is at most this many hours past its horizon

\* ages of the stored records, around the cleanup horizon
StoredAges(horizon) == {0, horizon - 1, horizon, horizon + MaxOverdue}

\* json.load inside try/except (FileNotFoundError, json.JSONDecodeError):
\* a missing or unparseable file gives the empty dict.
LoadJson(f) == IF f.readable THEN f.content ELSE EmptyDict

Deduplicator15m_load_cache(f) == LoadJson(f)

\* a field whose text datetime.fromisoformat rejects is kept out of the
\* record and named in `unparseable`
Records15m ==
    {[signal_type |-> s, signal_time |-> 0 - a, alerted_at |-> 0 - a] :
         s \in SignalTypes, a \in StoredAges(cleanup_hours_15m)}
    \cup {<< >>,
          [signal_type |-> "BUY", signal_time |-> 0],
          [signal_type |-> "BUY", signal_time |-> 0, unparseable |-> {"alerted_at"}],
          [alerted_at |-> 0],
          [signal_type |-> "BUY", alerted_at |-> 0, unparseable |-> {"signal_time"}]}

Dicts(keys, records) == UNION {[ks -> records] : ks \in SUBSET keys}

PersistedFiles15m ==
    {[readable |-> FALSE, content |-> EmptyDict]}
    \cup {[readable |-> TRUE, content |-> d] :
              d \in Dicts({recent_key(symbol) : symbol \in Symbols}, Records15m)}

StoredStates(signal_type) ==
    LET full(a) == [current_direction |-> signal_type,
                    last_alerted_timeframe |-> "6h",
                    last_alert_time |-> 0 - a, created_at |-> 0 - a,
                    suppression_level |-> "none"]
        short == [current_direction |-> signal_type,
                  last_alerted_timeframe |-> "6h",
                  last_alert_time |-> 0, suppression_level |-> "none"]
    IN  {full(a) : a \in StoredAges(states_cleanup_hours)}
        \cup {short,
              [current_direction |-> signal_type,
               last_alerted_timeframe |-> "6h",
               last_alert_time |-> 0, suppression_level |-> "none",
               unparseable |-> {"created_at"}]}

PersistedFilesMulti ==
    {[readable |-> FALSE, content |-> EmptyDict]}
    \cup {[readable |-> TRUE, content |-> d] :
              d \in UNION {[ks -> UNION {StoredStates(s) : s \in SignalTypes}] :
                               ks \in SUBSET {get_state_key(symbol, s) :
                                                  symbol \in GateSymbols,
                                                  s \in SignalTypes}}}

\* is_signal_allowed on a loaded dict: last_signal_data['signal_type'] and
\* fromisoformat(last_signal_data['signal_time']) are read outside any try.
Deduplicator15m_is_signal_allowed_loaded(sc, symbol, signal_type, signal_timestamp, t) ==
    LET symbol_key == recent_key(symbol)
    IN  IF /\ symbol_key \in DOMAIN sc
           /\ \/ ~Parses(sc[symbol_key], "signal_type")
              \/ ~Parses(sc[symbol_key], "signal_time")
        THEN [raised |-> TRUE, allowed |-> FALSE, cache |-> sc, saved |-> FALSE]
        ELSE LET r == Deduplicator15m_is_signal_allowed(
                          sc, symbol, signal_type, signal_timestamp, t)
             IN  [raised |-> FALSE, allowed |-> r.allowed, cache |-> r.cache,
                  saved |-> r.saved]

\* analyze_coin of analyzer_15m_cto.py after run_analysis cleaned the cache.
IsSignalAllowed15mLoaded ==
    /\ program = "analyzer_15m_cto"
    /\ Deduplicator15m_old_keys(signal_cache, now) = {}
    /\ \E symbol \in GateSymbols, signal_type \in SignalTypes, age \in SignalAges :
          LET r == Deduplicator15m_is_signal_allowed_loaded(
                       signal_cache, symbol, signal_type, now - age, now)
          IN  /\ signal_cache' = r.cache
              /\ signal_cache_file' = IF r.saved
                                      THEN Deduplicator15m_save_cache(r.cache)
                                      ELSE signal_cache_file
              /\ last' = [op |-> "Deduplicator15m.is_signal_allowed",
                          symbol |-> symbol, signal_type |-> signal_type,
                          timestamp |-> now - age, at |-> now,
                          raised |-> r.raised, allowed |-> r.allowed,
                          alerted |-> r.allowed /\ ~r.raised,
                          before |-> signal_cache]
    /\ UNCHANGED <<now, program, runVars, emaVars, dedupVars, dedup30mVars, processVars,
                   cascadeVars, latchVars, marked, recent>>

\* analyze_coin of analyzer_12h.py after run_analysis cleaned the states.
ShouldAlert12hLoaded ==
    /\ program = "analyzer_12h"
    /\ MultiTimeframeSuppressor_old_keys(suppression_states, now) = {}
    /\ \E symbol \in GateSymbols, signal_type \in SignalTypes,
          age \in 0 .. MaxAlertAge :
          LET r == MultiTimeframeSuppressor_should_alert(
                       suppression_states, symbol, signal_type,
                       Analyzer12h_timeframe, now - age, now)
          IN  /\ suppression_states' = r.states
              /\ state_file' = IF r.states # suppression_states
                               THEN MultiTimeframeSuppressor_save_states(r.states)
                               ELSE state_file
              /\ last' = [op |-> "should_alert", symbol |-> symbol,
                          signal_type |-> signal_type,
                          timeframe |-> Analyzer12h_timeframe,
                          timestamp |-> now - age, at |-> now,
                          allowed |-> r.allowed, action |-> r.action]
    /\ UNCHANGED <<now, program, runVars, emaVars, signal_result, escalation, dedupVars,
                   dedup15mVars, dedup30mVars, processVars, latchVars,
                   marked, recent>>

CorruptPrograms == {"analyzer_15m_cto", "analyzer_12h"}

CorruptTick == program \in CorruptPrograms /\ Tick

InitCorrupt ==
    /\ now = 0
    /\ program \in CorruptPrograms
    /\ cache = EmptyDict
    /\ cache_file = EmptyDict
    /\ signal_history = EmptyDict
    /\ history_file = EmptyDict
    /\ processes = NoProcesses
    /\ ema_files = NoEmaFiles
    /\ ema_config = default_analysis
    /\ active_analysis = default_analysis
    /\ last_config_check = unix_epoch
    /\ run6h = NoRun
    /\ \E f \in PersistedFiles15m, g \in PersistedFilesMulti :
          /\ program = "analyzer_15m_cto" => g.content = EmptyDict /\ ~g.readable
          /\ program = "analyzer_12h" => f.content = EmptyDict /\ ~f.readable
          /\ signal_cache = Deduplicator15m_load_cache(f)
          /\ signal_cache_file = LoadJson(f)
          /\ suppression_states = MultiTimeframeSuppressor_load_states(LoadJson(g))
          /\ state_file = LoadJson(g)
          /\ last = [op |-> "load",
                     readable |-> IF program = "analyzer_12h"
                                  THEN g.readable ELSE f.readable]
    /\ signal_result = NoSignal
    /\ escalation = [stage |-> 0, stamp |-> 0, decided |-> << >>]
    /\ max_workers = 1
    /\ alerts_file = [readable |-> TRUE, content |-> EmptyDict]
    /\ pc = [w \in Workers |-> "idle"]
    /\ task = [w \in Workers |-> NoTask]
    /\ local = [w \in Workers |-> EmptyDict]
    /\ result = [w \in Workers |-> NoResult]
    /\ concurrent = [w \in Workers |-> {}]
    /\ analysed = [symbol \in Symbols |-> 0]
    /\ marked = Unmarked
    /\ recent = EmptyDict

NextCorrupt ==
    \/ CorruptTick
    \/ IsSignalAllowed15mLoaded
    \/ CleanupOldSignals
    \/ ShouldAlert12hLoaded
    \/ CleanupOldStatesMulti

SpecCorrupt == InitCorrupt /\ [][NextCorrupt]_vars

----------------------------------------------------------------------------
(* EMA crossover indicators: ema_12_21_indicator.py (EMA12_21Indicator)     *)
(* and src/ema_indicator.py (DynamicEMAIndicator), called one at a time     *)

MaxEmaValue == 2         \* the last two EMA values of each series lie in 1 .. MaxEmaValue

EmaValues == 1 .. MaxEmaValue

crossover_cooldown_hours == 6

\* detect_crossover on (ema[-2], ema[-1]) of the short and the long series
detect_crossover(prev_short, curr_short, prev_long, curr_long) ==
    IF prev_short <= prev_long /\ curr_short > curr_long THEN "golden_cross"
    ELSE IF prev_short >= prev_long /\ curr_short < curr_long THEN "death_cross"
    ELSE "None"

\* cache[symbol].get('last_alert_time', 0)
last_alert_time_of(entry) ==
    IF "last_alert_time" \in DOMAIN entry THEN entry.last_alert_time ELSE unix_epoch

\* ema_<short>_<long>_alerts.json
ema_cache_file(analysis) ==
    IF analysis.ema_short = 12 /\ analysis.ema_long = 21 THEN "ema_12_21_alerts"
    ELSE "ema_21_50_alerts"

\* load_cache(): the parsed file, {} when it does not exist
ema_load_cache(files, file) ==
    IF file \in DOMAIN files THEN files[file] ELSE EmptyDict

EMA12_21Indicator_analyze_one_tick_short(c, symbol, enough, crossover_type, t) ==
    IF ~enough \/ crossover_type = "None"
    THEN [crossover_alert |-> FALSE, cache |-> c, saved |-> FALSE]
    ELSE IF symbol \in DOMAIN c
            /\ ~(t - last_alert_time_of(c[symbol]) >= crossover_cooldown_hours - 1)
    THEN [crossover_alert |-> FALSE, cache |-> c, saved |-> FALSE]
    ELSE [crossover_alert |-> TRUE,
          cache |-> Put(c, symbol, [last_alert_time |-> t]), saved |-> TRUE]

\* EMA12_21Indicator.analyze(ohlcv_data, symbol) at time.time() = t on the
\* loaded cache c; `enough` is len(closes) >= 50.
EMA12_21Indicator_analyze(c, symbol, enough, crossover_type, t) ==
    IF ~enough \/ crossover_type = "None"
    THEN [crossover_alert |-> FALSE, cache |-> c, saved |-> FALSE]
    ELSE IF symbol \in DOMAIN c
            /\ ~(t - last_alert_time_of(c[symbol]) >= crossover_cooldown_hours)
    THEN [crossover_alert |-> FALSE, cache |-> c, saved |-> FALSE]
    ELSE [crossover_alert |-> TRUE,
          cache |-> Put(c, symbol, [last_alert_time |-> t]), saved |-> TRUE]

\* The analyses config/ema_config.yaml can enable.
Analyses ==
    {[ema_short |-> 12, ema_long |-> 21, cooldown_hours |-> 6],
     [ema_short |-> 12, ema_long |-> 21, cooldown_hours |-> 12],
     default_analysis}

\* check_config_updates() at time.time() = t: the config is re-read when more
\* than config_check_interval (60 s, less than the model's hour) has passed,
\* and the active analysis changes only when the EMA pair changed.
DynamicEMAIndicator_check_config_updates(active, config, last_check, t) ==
    IF t - last_check >= 1
    THEN [active |-> IF active.ema_short # config.ema_short
                        \/ active.ema_long # config.ema_long
                     THEN config ELSE active,
          last_config_check |-> t]
    ELSE [active |-> active, last_config_check |-> last_check]

\* DynamicEMAIndicator.analyze after check_config_updates, on the cache c
\* loaded from the active analysis's file.
DynamicEMAIndicator_analyze(c, active, symbol, enough, fresh, crossover_type, t) ==
    IF ~enough THEN [crossover_alert |-> FALSE, reason |-> "insufficient_data",
                     cache |-> c, saved |-> FALSE]
    ELSE IF ~fresh THEN [crossover_alert |-> FALSE, reason |-> "stale_data",
                         cache |-> c, saved |-> FALSE]
    ELSE IF crossover_type = "None"
    THEN [crossover_alert |-> FALSE, reason |-> "no_crossover",
          cache |-> c, saved |-> FALSE]
    ELSE IF symbol \in DOMAIN c
            /\ t - last_alert_time_of(c[symbol]) < active.cooldown_hours
    THEN [crossover_alert |-> FALSE, reason |-> "cooldown_active",
          cache |-> c, saved |-> FALSE]
    ELSE [crossover_alert |-> TRUE, reason |-> "valid_crossover",
          cache |-> Put(c, symbol, [last_alert_time |-> t]), saved |-> TRUE]

\* history of an analyze() call: `recent` keeps the latest alert per symbol
\* and per (cache file, symbol)
file_key(file, symbol) == file \o "/" \o symbol

NoteCrossover(op, file, cooldown, symbol, eligible, crossover_type, r) ==
    LET key == file_key(file, symbol)
        entry == [signal_type |-> crossover_type, at |-> now, timestamp |-> now]
    IN  /\ last' = [op |-> op, symbol |-> symbol, file |-> file,
                    cooldown_hours |-> cooldown,
                    eligible |-> eligible,
                    crossover_type |-> crossover_type, at |-> now,
                    crossover_alert |-> r.crossover_alert,
                    had_recent |-> symbol \in DOMAIN recent,
                    recent |-> IF symbol \in DOMAIN recent
                               THEN recent[symbol] ELSE NoRecent,
                    had_recent_in_file |-> key \in DOMAIN recent,
                    recent_in_file |-> IF key \in DOMAIN recent
                                       THEN recent[key] ELSE NoRecent]
        /\ recent' = IF r.crossover_alert
                     THEN Put(Put(recent, symbol, entry), key, entry)
                     ELSE recent

\* analyze_coin of ema_30m_analyzer.py
EmaAnalyze12_21 ==
    /\ program = "ema_30m_analyzer"
    /\ \E symbol \in GateSymbols, enough \in BOOLEAN,
          prev_short \in EmaValues, curr_short \in EmaValues,
          prev_long \in EmaValues, curr_long \in EmaValues :
          LET file == "ema_12_21_alerts"
              crossover_type == detect_crossover(prev_short, curr_short,
                                                 prev_long, curr_long)
              r == EMA12_21Indicator_analyze(ema_load_cache(ema_files, file),
                                             symbol, enough, crossover_type, now)
          IN  /\ ema_files' = IF r.saved THEN Put(ema_files, file, r.cache)
                              ELSE ema_files
              /\ NoteCrossover("EMA12_21Indicator.analyze", file,
                               crossover_cooldown_hours, symbol,
                               enough /\ crossover_type # "None",
                               crossover_type, r)
    /\ UNCHANGED <<now, program, runVars, ema_config, active_analysis, last_config_check,
                   dedupVars, dedup15mVars, dedup30mVars, processVars,
                   cascadeVars, latchVars, marked>>

\* analyze_coin of src/ema_analyzer.py
EmaAnalyzeDynamic ==
    /\ program = "ema_analyzer"
    /\ \E symbol \in GateSymbols, enough \in BOOLEAN, fresh \in BOOLEAN,
          prev_short \in EmaValues, curr_short \in EmaValues,
          prev_long \in EmaValues, curr_long \in EmaValues :
          LET checked == DynamicEMAIndicator_check_config_updates(
                             active_analysis, ema_config, last_config_check, now)
              file == ema_cache_file(checked.active)
              crossover_type == detect_crossover(prev_short, curr_short,
                                                 prev_long, curr_long)
              r == DynamicEMAIndicator_analyze(
                       ema_load_cache(ema_files, file), checked.active, symbol,
                       enough, fresh, crossover_type, now)
          IN  /\ active_analysis' = checked.active
              /\ last_config_check' = checked.last_config_check
              /\ ema_files' = IF r.saved THEN Put(ema_files, file, r.cache)
                              ELSE ema_files
              /\ NoteCrossover("DynamicEMAIndicator.analyze", file,
                               checked.active.cooldown_hours, symbol,
                               enough /\ fresh /\ crossover_type # "None",
                               crossover_type, r)
    /\ UNCHANGED <<now, program, runVars, ema_config, dedupVars, dedup15mVars,
                   dedup30mVars, processVars, cascadeVars, latchVars, marked>>

\* config/ema_config.yaml is edited: another analysis is enabled
EditConfig ==
    /\ program = "ema_analyzer"
    /\ \E analysis \in Analyses \ {ema_config} : ema_config' = analysis
    /\ last' = Idle
    /\ UNCHANGED <<now, program, runVars, ema_files, active_analysis, last_config_check,
                   dedupVars, dedup15mVars, dedup30mVars, processVars,
                   cascadeVars, latchVars, marked, recent>>

EmaPrograms == {"ema_30m_analyzer", "ema_analyzer"}

EmaTick == program \in EmaPrograms /\ Tick

EmaSleep == program \in EmaPrograms /\ Sleep

\* DynamicEMAIndicator.__init__: active_analysis = get_active_analysis() of
\* the config file as it is then
InitEma ==
    /\ now = 0
    /\ program \in EmaPrograms
    /\ cache = EmptyDict
    /\ cache_file = EmptyDict
    /\ signal_cache = EmptyDict
    /\ signal_cache_file = EmptyDict
    /\ signal_history = EmptyDict
    /\ history_file = EmptyDict
    /\ processes = NoProcesses
    /\ ema_files = NoEmaFiles
    /\ ema_config \in Analyses
    /\ program = "ema_30m_analyzer" => ema_config = default_analysis
    /\ active_analysis = ema_config
    /\ last_config_check = unix_epoch
    /\ run6h = NoRun
    /\ suppression_states = EmptyDict
    /\ state_file = EmptyDict
    /\ signal_result = NoSignal
    /\ escalation = [stage |-> 0, stamp |-> 0, decided |-> << >>]
    /\ max_workers = 1
    /\ alerts_file = [readable |-> TRUE, content |-> EmptyDict]
    /\ pc = [w \in Workers |-> "idle"]
    /\ task = [w \in Workers |-> NoTask]
    /\ local = [w \in Workers |-> EmptyDict]
    /\ result = [w \in Workers |-> NoResult]
    /\ concurrent = [w \in Workers |-> {}]
    /\ analysed = [symbol \in Symbols |-> 0]
    /\ last = Idle
    /\ marked = Unmarked
    /\ recent = EmptyDict

NextEma ==
    \/ EmaTick
    \/ EmaSleep
    \/ EmaAnalyze12_21
    \/ EmaAnalyzeDynamic
    \/ EditConfig

SpecEma == InitEma /\ [][NextEma]_vars

-----------------------------------------------------------------------------
(* Multi6HAnalyzer.run_analysis (analyzer_6h.py): one run every six hours *)

MaxCycles == 2           \* scheduled runs after the first one

cycle_hours == 6

Multi6HAnalyzer_timeframe == "6h"

LatestSignals == {"none"} \cup SignalTypes   \* buySignal, sellSignal or neither on the latest candle

\* analyze_coin_for_signals(coin): None without a signal on the latest candle
\* or when the gate suppresses it, else the signal data.
Multi6HAnalyzer_analyze_coin_for_signals(states, symbol, latest_signal, signal_timestamp) ==
    IF latest_signal = "none"
    THEN [pending |-> FALSE, asked |-> FALSE, allowed |-> FALSE, action |-> "none"]
    ELSE LET suppression_result ==
                 MultiTimeframeSuppressionManager_should_allow_signal(
                     states, symbol, latest_signal, Multi6HAnalyzer_timeframe,
                     signal_timestamp)
         IN  IF ~suppression_result.allowed
             THEN [pending |-> FALSE, asked |-> TRUE, allowed |-> FALSE,
                   action |-> suppression_result.action]
             ELSE [pending |-> TRUE, asked |-> TRUE, allowed |-> TRUE,
                   symbol |-> symbol, signal_type |-> latest_signal,
                   timeframe |-> Multi6HAnalyzer_timeframe,
                   timestamp |-> signal_timestamp,
                   action |-> suppression_result.action]

\* run_analysis up to the coin loop: the market data is loaded and
\* cleanup_old_states() runs.
StartRun6h ==
    /\ program = "analyzer_6h"
    /\ run6h.phase = "idle"
    /\ LET keys_to_remove == MultiTimeframeSuppressionManager_keys_to_remove(
                                 suppression_states, now)
       IN  /\ suppression_states' = DelAll(suppression_states, keys_to_remove)
           /\ state_file' = IF keys_to_remove # {}
                            THEN MultiTimeframeSuppressionManager_save_state(
                                     suppression_states')
                            ELSE state_file
           /\ last' = [op |-> "cleanup_old_states", at |-> now,
                       before |-> suppression_states, before_file |-> state_file,
                       removed |-> keys_to_remove]
    /\ run6h' = [run6h EXCEPT !.phase = "coins", !.todo = Symbols,
                              !.valid_signals = {}]
    /\ UNCHANGED <<now, program, emaVars, signal_result, escalation,
                   dedupVars, dedup15mVars, dedup30mVars, processVars, latchVars, marked, recent>>

\* One pass of the coin loop: analyze_coin_for_signals(coin), and for a
\* returned signal valid_signals.append and record_signal.
AnalyzeCoin6h ==
    /\ program = "analyzer_6h"
    /\ run6h.phase = "coins"
    /\ \E symbol \in run6h.todo, latest_signal \in LatestSignals,
          age \in 0 .. MaxCandleAge :
          LET r == Multi6HAnalyzer_analyze_coin_for_signals(
                       suppression_states, symbol, latest_signal, now - age)
              entry == [symbol |-> symbol, signal_type |-> latest_signal,
                        timestamp |-> now - age]
          IN  /\ suppression_states' =
                     IF r.pending
                     THEN MultiTimeframeSuppressionManager_record_signal(
                              suppression_states, r.symbol, r.signal_type,
                              Multi6HAnalyzer_timeframe, r.timestamp, now)
                     ELSE suppression_states
              /\ state_file' = IF r.pending
                               THEN MultiTimeframeSuppressionManager_save_state(
                                        suppression_states')
                               ELSE state_file
              /\ run6h' = [run6h EXCEPT
                              !.todo = @ \ {symbol},
                              !.valid_signals = IF r.pending THEN @ \cup {entry} ELSE @]
              /\ last' = [op |-> "analyze_coin_for_signals", symbol |-> symbol,
                          signal_type |-> latest_signal, timestamp |-> now - age,
                          at |-> now, asked |-> r.asked, allowed |-> r.allowed,
                          action |-> r.action, returned |-> r.pending,
                          before |-> suppression_states, before_file |-> state_file,
                          failed |-> run6h.failed, failed_at |-> run6h.failed_at]
    /\ UNCHANGED <<now, program, emaVars, signal_result, escalation,
                   dedupVars, dedup15mVars, dedup30mVars, processVars, latchVars, marked, recent>>

\* After the loop: send_multi_consolidated_alert(valid_signals) when there is
\* a signal; delivery succeeds or fails, and the run ends either way.
SendAlert6h ==
    /\ program = "analyzer_6h"
    /\ run6h.phase = "coins"
    /\ run6h.todo = {}
    /\ \E success \in BOOLEAN :
          /\ run6h.valid_signals = {} => success
          /\ run6h' = [run6h EXCEPT
                          !.phase = "idle",
                          !.failed = IF success THEN {} ELSE run6h.valid_signals,
                          !.failed_at = now]
          /\ last' = [op |-> "send_multi_consolidated_alert", at |-> now,
                      sent |-> run6h.valid_signals # {}, success |-> success,
                      signals |-> run6h.valid_signals,
                      before |-> suppression_states, before_file |-> state_file]
    /\ UNCHANGED <<now, program, emaVars, dedupVars, dedup15mVars, dedup30mVars,
                   processVars, cascadeVars, latchVars, marked, recent>>

\* The scheduler starts the next run six hours later.
CycleTick ==
    /\ program = "analyzer_6h"
    /\ run6h.phase = "idle"
    /\ now < MaxCycles * cycle_hours
    /\ now' = now + cycle_hours
    /\ last' = Idle
    /\ UNCHANGED <<program, runVars, emaVars, dedupVars, dedup15mVars, dedup30mVars,
                   processVars, cascadeVars, latchVars, marked, recent>>

InitRun6h ==
    /\ InitCommon
    /\ max_workers = 1
    /\ program = "analyzer_6h"

NextRun6h ==
    \/ StartRun6h
    \/ AnalyzeCoin6h
    \/ SendAlert6h
    \/ CycleTick

SpecRun6h == InitRun6h /\ [][NextRun6h]_vars

----------------------------------------------------------------------------
(* Claims about the cooldown gates (SpecCooldown) *)

IsDedupCall == last.op = "SignalDeduplicator.is_signal_allowed"

IsDedup15mCall == last.op = "Deduplicator15m.is_signal_allowed"

\* the call carried a timestamp the staleness ceiling of SignalDeduplicator accepts
NonStale == last.at - last.timestamp <= stale_hours

LastKey == get_state_key(last.symbol, last.signal_type)

LastOppositeKey == get_state_key(last.symbol, opposite(last.signal_type))

\* C1 as stated: whenever some earlier call for the same symbol and direction
\* was allowed at t1 (the marked call stands for any of them), a later
\* non-stale call at t2 returns False if t2 - t1 < cooldown and True if
\* t2 - t1 >= cooldown.
C1_CooldownFromAnyAllowedCall ==
    (IsDedupCall /\ NonStale /\ last.marked.set /\ last.marked.key = LastKey)
        => (last.allowed <=> (last.at - last.marked.at >= cooldown_hours))

\* C1 amended: when the latest allowed call for the symbol was in the same
\* direction, at t1 (no call for the symbol was allowed since), a non-stale
\* call at t2 returns False if t2 - t1 < cooldown and True if t2 - t1 >= cooldown.
C1_CooldownMonotonicity ==
    (IsDedupCall /\ NonStale /\ last.had_recent
        /\ last.recent.signal_type = last.signal_type)
        => (last.allowed <=> (last.at - last.recent.at >= cooldown_hours))

\* C1 witness: a same-direction call exactly one cooldown after the allowed one.
C1_Witness ==
    /\ IsDedupCall /\ NonStale /\ last.had_recent
    /\ last.recent.signal_type = last.signal_type
    /\ last.at - last.recent.at = cooldown_hours
    /\ last.allowed

\* C2: in both cooldown gates, when the latest allowed call for the symbol
\* was in the opposite direction, the call is allowed whatever the time since
\* then, and so is the next call back in the first direction, even inside the
\* cooldown of an earlier allowed call in that direction.
C2_OppositeReset ==
    /\ (IsDedupCall /\ NonStale /\ last.had_recent
           /\ last.recent.signal_type = opposite(last.signal_type))
           => last.allowed
    /\ (IsDedup15mCall /\ last.had_recent
           /\ last.recent.signal_type = opposite(last.signal_type))
           => last.allowed

\* C2 witness: BUY allowed at t0, SELL allowed at t0+3h, BUY allowed again in
\* the same hour, 3h after the first BUY.
C2_Witness ==
    /\ IsDedupCall /\ last.allowed /\ last.signal_type = "BUY"
    /\ last.had_recent /\ last.recent.signal_type = "SELL"
    /\ last.recent.at = last.at
    /\ last.marked.set /\ last.marked.key = LastKey
    /\ last.at - last.marked.at = 3

----------------------------------------------------------------------------
(* Claims about the cascading manager (SpecCascade) *)

IsShouldAllow == last.op = "should_allow_signal"

IsRecordSignal == last.op = "record_signal"

\* C3 as stated: the sequence BUY@6h, BUY@6h, BUY@8h, BUY@8h, BUY@12h,
\* BUY@12h is decided allow, suppress, allow, suppress, allow, allow.
C3_EscalationTopAlwaysAllowed ==
    escalation.stage = Len(EscalationSequence)
        => escalation.decided = <<TRUE, FALSE, TRUE, FALSE, TRUE, TRUE>>

\* C3 amended: the sequence is decided allow, suppress, allow, suppress,
\* allow, suppress: the repeated 12h is suppressed like any repeated timeframe.
C3_Escalation ==
    escalation.stage = Len(EscalationSequence)
        => escalation.decided = <<TRUE, FALSE, TRUE, FALSE, TRUE, FALSE>>

\* C3 witness: the six calls of the sequence have been made.
C3_Witness == escalation.stage = Len(EscalationSequence)

\* C4: with a non-expired record at timeframe T for (symbol, direction), a
\* signal at a timeframe of lower cascade index is suppressed.
C4_LowerTimeframeSuppressed ==
    (/\ IsShouldAllow
     /\ LastKey \in DOMAIN last.before
     /\ last.timestamp - last.before[LastKey].timestamp <= suppression_window
     /\ InCascade(last.timeframe)
     /\ InCascade(last.before[LastKey].timeframe)
     /\ index(last.timeframe) < index(last.before[LastKey].timeframe))
        => ~last.allowed

\* C4 witness: BUY@6h asked while a BUY@8h record is active.
C4_Witness ==
    /\ IsShouldAllow /\ ~last.allowed
    /\ last.timeframe = "6h"
    /\ LastKey \in DOMAIN last.before
    /\ last.before[LastKey].timeframe = "8h"

\* C9 as stated: suppression_states and the file change only in record_signal.
C9_OnlyRecordSignalWrites ==
    [][(suppression_states' # suppression_states \/ state_file' # state_file)
          => last'.op = "record_signal"]_vars

\* C9 amended: should_allow_signal leaves suppression_states and the file
\* unchanged; they change only in record_signal and cleanup_old_states; and
\* record_signal is called only for the signal should_allow_signal just allowed.
C9_ShouldAllowIsPure ==
    [][/\ last'.op = "should_allow_signal"
            => UNCHANGED <<suppression_states, state_file>>
       /\ (suppression_states' # suppression_states \/ state_file' # state_file)
            => last'.op \in {"record_signal", "cleanup_old_states"}
       /\ (last'.op = "record_signal" /\ last' # last)
            => /\ last.op = "should_allow_signal"
               /\ last.allowed
               /\ <<last.symbol, last.signal_type, last.timeframe, last.timestamp>>
                    = <<last'.symbol, last'.signal_type, last'.timeframe,
                        last'.timestamp>>]_vars

\* C9 witness: a signal was allowed against a non-empty store and awaits
\* record_signal.
C9_Witness ==
    /\ IsShouldAllow /\ last.allowed
    /\ DOMAIN last.before # {}
    /\ signal_result.pending
    /\ suppression_states = last.before

\* C10 as stated: record_signal leaves the opposite-direction record in place.
C10_OppositeRecordKept ==
    (IsRecordSignal /\ LastOppositeKey \in DOMAIN last.before)
        => /\ LastOppositeKey \in DOMAIN suppression_states
           /\ suppression_states[LastOppositeKey] = last.before[LastOppositeKey]

\* C10 amended: record_signal overwrites the (symbol, direction) record,
\* deletes the opposite-direction record of the symbol and leaves every other
\* key as it was; no symbol ever has records for both directions.
C10_RecordReplacesOpposite ==
    /\ IsRecordSignal
         => /\ DOMAIN suppression_states
                 = (DOMAIN last.before \cup {LastKey}) \ {LastOppositeKey}
            /\ suppression_states[LastKey]
                 = [timeframe |-> last.timeframe, timestamp |-> last.timestamp,
                    recorded_at |-> last.at]
            /\ \A k \in DOMAIN suppression_states \ {LastKey} :
                   suppression_states[k] = last.before[k]
            /\ state_file = suppression_states
    /\ \A symbol \in GateSymbols :
           ~(/\ get_state_key(symbol, "BUY") \in DOMAIN suppression_states
             /\ get_state_key(symbol, "SELL") \in DOMAIN suppression_states)

\* C10 witness: record_signal ran while the opposite direction had a record.
C10_Witness ==
    /\ IsRecordSignal
    /\ LastOppositeKey \in DOMAIN last.before
    /\ LastOppositeKey \notin DOMAIN suppression_states

----------------------------------------------------------------------------
(* Claims about the direction latch and the thread pool                     *)

\* The latest step returned from an analyze() call that reached the
\* direction check with exactly one direction detected.
IsLatchCall ==
    /\ last.op = "analyze"
    /\ last.reason \in {"valid_signal", "same_direction_blocked"}
    /\ last.buy_signal # last.sell_signal

LastDirection == IF last.buy_signal THEN "buy" ELSE "sell"

\* C5: with analyze() called sequentially on fresh data with one direction
\* detected, the call alerts if and only if the last_signal stored for the
\* symbol differs from the detected direction; equivalently it alerts if and
\* only if the symbol's previous alert (if any) was for the other direction,
\* however long ago that alert was.
C5_DirectionLatch ==
    IsLatchCall =>
        /\ last.signal_alert <=> (last.stored # LastDirection)
        /\ last.signal_alert <=>
               (~last.had_recent \/ last.recent.signal_type # LastDirection)
        /\ last.signal_alert => last.signal_type = LastDirection

\* A repeat of the previous alert's direction is blocked in a later run.
C5_Witness ==
    /\ IsLatchCall
    /\ ~last.signal_alert
    /\ last.had_recent
    /\ last.recent.signal_type = LastDirection
    /\ last.recent.at < last.at

\* C6: two analyze() calls of the pool that overlap in time and evaluate the
\* same symbol and direction never both alert.
C6_SameKeyAtMostOneAlert ==
    \A w \in Workers : \A v \in Workers \ {w} :
        ~ /\ pc[w] = "done" /\ pc[v] = "done"
          /\ v \in concurrent[w]
          /\ task[w].symbol = task[v].symbol
          /\ result[w].signal_alert /\ result[v].signal_alert
          /\ result[w].signal_type = result[v].signal_type

PoolDrained == \A w \in Workers : pc[w] \in {"idle", "done"}

DistinctSymbols == \A symbol \in Symbols : analysed[symbol] <= 1

HasRecord(file, symbol, signal_type) ==
    /\ file.readable
    /\ symbol \in DOMAIN file.content
    /\ file.content[symbol].last_signal = signal_type

\* C7: when the calls of a run are all on different symbols, then once every
\* worker has finished the persisted cache holds the record of every call
\* of the run that alerted.
C7_DistinctKeysKeepRecords ==
    (PoolDrained /\ DistinctSymbols) =>
        \A symbol \in DOMAIN recent :
            recent[symbol].at = now =>
                HasRecord(alerts_file, symbol, recent[symbol].signal_type)

----------------------------------------------------------------------------
(* Claims about the cascading suppressors (SpecCascading, SpecSuppressor)   *)

IsShouldAlert == last.op = "should_alert"

\* A step that is a should_alert call (only ShouldAlert sets this operation).
ShouldAlertStep == last'.op = "should_alert" /\ last' # last

\* the keys of the call made by a should_alert step
NextKey == get_state_key(last'.symbol, last'.signal_type)

NextOppositeKey == get_state_key(last'.symbol, opposite(last'.signal_type))

\* C11 as stated: a call that finds a record written more than 72h before
\* the call is allowed, in the manager (written at recorded_at) and in the
\* suppressor (written at created_at), whatever the timeframes.
C11_ExpiryByRecordAge ==
    /\ [](IsShouldAllow
             => (LastKey \in DOMAIN last.before
                    /\ last.at - last.before[LastKey].recorded_at > suppression_window
                 => last.allowed))
    /\ [][ShouldAlertStep
             => (NextKey \in DOMAIN suppression_states
                    /\ now - suppression_states[NextKey].created_at > suppression_window
                 => last'.allowed)]_vars

\* C11 amended: the manager allows a signal whose timestamp is more than 72h
\* after the recorded signal's timestamp, whatever the timeframes; the
\* suppressor's records expire only through cleanup_old_states, which leaves
\* no record created more than 72h ago, and a should_alert call that finds no
\* record is allowed.
C11_TTLExpiry ==
    /\ [](IsShouldAllow
             => (LastKey \in DOMAIN last.before
                    /\ last.timestamp - last.before[LastKey].timestamp > suppression_window
                 => last.allowed))
    /\ [](last.op = "cleanup_old_states_multi"
             => \A key \in DOMAIN suppression_states :
                    last.at - suppression_states[key].created_at <= states_cleanup_hours)
    /\ [][ShouldAlertStep
             => (NextKey \notin DOMAIN suppression_states => last'.allowed)]_vars

\* C11 witness: the manager allows a repeat of the recorded timeframe whose
\* timestamp is more than 72h after the recorded one.
C11_Witness ==
    /\ IsShouldAllow
    /\ LastKey \in DOMAIN last.before
    /\ last.timestamp - last.before[LastKey].timestamp > suppression_window
    /\ last.before[LastKey].timeframe = last.timeframe
    /\ last.allowed

\* the opposite-direction record of the symbol was last alerted on 6h and
\* its last_alert_time is less than 24h before the call
RecentOpposite6h ==
    /\ NextOppositeKey \in DOMAIN suppression_states
    /\ suppression_states[NextOppositeKey].last_alerted_timeframe = "6h"
    /\ now - suppression_states[NextOppositeKey].last_alert_time < reset_hours

\* C12: a should_alert call made while the opposite direction has a record
\* last alerted on 6h less than 24h ago is allowed and leaves the record of
\* its own (symbol, direction) freshly created with suppression_level 'none'.
C12_OppositeReset ==
    [][(ShouldAlertStep /\ RecentOpposite6h)
          => /\ last'.allowed
             /\ NextKey \in DOMAIN suppression_states'
             /\ suppression_states'[NextKey] =
                    [current_direction |-> last'.signal_type,
                     last_alerted_timeframe |-> last'.timeframe,
                     last_alert_time |-> last'.timestamp,
                     created_at |-> now,
                     suppression_level |-> "none"]]_vars

\* C12 witness: a 6h signal let through by the reset although its own record
\* existed.
C12_Witness ==
    /\ IsShouldAlert
    /\ last.action = "opposite_reset"
    /\ last.timeframe = "6h"
    /\ last.allowed
    /\ suppression_states[LastKey].suppression_level = "none"

\* C13: every should_alert call with timeframe '12h' returns True, whatever
\* records exist for the symbol.
C13_TwelveHourAlwaysAllowed ==
    (IsShouldAlert /\ last.timeframe = "12h") => last.allowed

\* C13 witness: a 12h signal allowed although the record already stood at
\* 12h and no opposite-direction record exists.
C13_Witness ==
    /\ IsShouldAlert
    /\ last.timeframe = "12h"
    /\ last.action = "allow_12h"
    /\ last.allowed
    /\ LastOppositeKey \notin DOMAIN suppression_states
    /\ suppression_states[LastKey].last_alert_time > suppression_states[LastKey].created_at

\* C14: a same-direction 6h signal that finds the record last alerted on 6h
\* (a 6h signal was allowed and no 8h signal was alerted since), with no
\* opposite-direction reset applying, is suppressed.
C14_Repeated6hSuppressed ==
    [][(/\ ShouldAlertStep
        /\ last'.timeframe = "6h"
        /\ NextKey \in DOMAIN suppression_states
        /\ suppression_states[NextKey].last_alerted_timeframe = "6h"
        /\ ~RecentOpposite6h)
          => ~last'.allowed]_vars

\* C15: a same-direction signal on a timeframe lower in 6h < 8h < 12h than
\* the record's last alerted timeframe, with no opposite-direction reset
\* applying, is suppressed.
C15_LowerTimeframeSilenced ==
    [][(/\ ShouldAlertStep
        /\ NextKey \in DOMAIN suppression_states
        /\ InCascade(last'.timeframe)
        /\ InCascade(suppression_states[NextKey].last_alerted_timeframe)
        /\ index(last'.timeframe)
               < index(suppression_states[NextKey].last_alerted_timeframe)
        /\ ~RecentOpposite6h)
          => ~last'.allowed]_vars

----------------------------------------------------------------------------
(* Claims about the freshness validator (SpecFreshness)                     *)

IsFreshnessCall == last.op = "is_signal_fresh"

\* C16: is_signal_fresh is True for a signal exactly max_age minutes old and
\* False for every older one, max_age being the limit of the timeframe.
C16_FreshnessBoundary ==
    IsFreshnessCall =>
        /\ last.signal_age_minutes = max_age_minutes(last.timeframe) => last.fresh
        /\ last.signal_age_minutes > max_age_minutes(last.timeframe) => ~last.fresh

\* C16 witness: a 6h signal exactly 420 minutes old is fresh.
C16_Witness ==
    /\ IsFreshnessCall
    /\ last.timeframe = "6h"
    /\ last.signal_age_minutes = 420
    /\ last.fresh

\* the table of the claim and the nominal candle periods, in minutes
ClaimedLimit(timeframe) ==
    CASE timeframe = "30m" -> 45
      [] timeframe = "6h"  -> 420
      [] timeframe = "8h"  -> 540
      [] timeframe = "12h" -> 780
      [] OTHER -> 45

CandlePeriod(timeframe) ==
    CASE timeframe = "30m" -> 30
      [] timeframe = "6h"  -> 360
      [] timeframe = "8h"  -> 480
      [] timeframe = "12h" -> 720

\* C17: is_signal_fresh equals age <= limit with limits 45, 420, 540 and 780
\* minutes for 30m, 6h, 8h and 12h, each wider than the candle period, and 45
\* minutes for a timeframe that is not in the table.
C17_FreshnessTable ==
    /\ IsFreshnessCall =>
           (last.fresh <=> last.signal_age_minutes <= ClaimedLimit(last.timeframe))
    /\ DOMAIN freshness_limits = {"30m", "6h", "8h", "12h"}
    /\ \A tf \in DOMAIN freshness_limits :
           /\ freshness_limits[tf] = ClaimedLimit(tf)
           /\ freshness_limits[tf] > CandlePeriod(tf)

\* C17 witness: a '15m' signal 45 minutes old is judged fresh.
C17_Witness ==
    /\ IsFreshnessCall
    /\ last.timeframe = "15m"
    /\ last.signal_age_minutes = 45
    /\ last.fresh

----------------------------------------------------------------------------
(* Further claims about the cooldown gates (SpecCooldown)                   *)

\* the same-direction record the call found is still inside its cooldown
InCooldown ==
    /\ LastKey \in DOMAIN last.before
    /\ last.at - last.before[LastKey] < cooldown_hours

\* C18: a SignalDeduplicator.is_signal_allowed call whose signal is more than
\* 1 hour old returns False and leaves the cache alone, whatever the cache
\* holds; a signal exactly 1 hour old passes this check, so that call is
\* decided by the cooldown alone.
C18_StalenessCeiling ==
    IsDedupCall =>
        /\ last.at - last.timestamp > stale_hours
               => (~last.allowed /\ cache = last.before)
        /\ last.at - last.timestamp = stale_hours
               => (last.allowed <=> ~InCooldown)

\* C18 witness: a signal 2 hours old is refused although the cooldown of the
\* record it found has expired.
C18_Witness ==
    /\ IsDedupCall
    /\ last.at - last.timestamp > stale_hours
    /\ ~last.allowed
    /\ LastKey \in DOMAIN last.before
    /\ ~InCooldown

\* the symbol's latest allowed call was in the direction of this call, so
\* the record this call finds was written by that call
RepeatsRecent == last.had_recent /\ last.recent.signal_type = last.signal_type

\* C19 as stated: in both cooldown gates a same-direction call is suppressed
\* if and only if less than the cooldown has passed since the candle
\* timestamp of the last allowed signal.
C19_CooldownFromSignalTime ==
    /\ (IsDedup15mCall /\ RepeatsRecent)
           => (~last.allowed <=> last.at - last.recent.timestamp < cooldown_hours)
    /\ (IsDedupCall /\ NonStale /\ RepeatsRecent)
           => (~last.allowed <=> last.at - last.recent.timestamp < cooldown_hours)

\* C19 amended: Deduplicator15m measures the cooldown from the candle
\* timestamp of the last allowed signal; SignalDeduplicator measures it from
\* the wall-clock time of the call that allowed it.
C19_CooldownOrigin ==
    /\ (IsDedup15mCall /\ RepeatsRecent)
           => (~last.allowed
                   <=> last.at - last.recent.timestamp < Deduplicator15m_cooldown_hours)
    /\ (IsDedupCall /\ NonStale /\ RepeatsRecent)
           => (~last.allowed <=> last.at - last.recent.at < cooldown_hours)

\* C19 witness: Deduplicator15m allows a repeat 3 hours after the call that
\* allowed a candle then 1 hour old.
C19_Witness ==
    /\ IsDedup15mCall /\ RepeatsRecent
    /\ last.allowed
    /\ last.at - last.recent.at < Deduplicator15m_cooldown_hours
    /\ last.at - last.recent.timestamp >= Deduplicator15m_cooldown_hours

\* the record a should_alert step finds for its key was last alerted on a
\* timeframe outside the cascade order
StoredUnknown ==
    /\ NextKey \in DOMAIN suppression_states
    /\ ~InCascade(suppression_states[NextKey].last_alerted_timeframe)

\* C20 as stated: a decision for a timeframe outside the cascade order, or
\* against a record whose stored timeframe is outside it, is 'allowed' in
\* should_allow_signal and in should_alert alike.
C20_UnknownFailsOpen ==
    /\ [](IsShouldAllow
             => (~InCascade(last.timeframe)
                    \/ (LastKey \in DOMAIN last.before
                           /\ ~InCascade(last.before[LastKey].timeframe))
                 => last.allowed))
    /\ [][ShouldAlertStep
             => (~InCascade(last'.timeframe) \/ StoredUnknown => last'.allowed)]_vars

\* C20 amended: should_allow_signal allows whenever the new or the stored
\* timeframe is outside the cascade order; should_alert allows every signal
\* whose own timeframe is outside it, and against a record whose stored
\* timeframe is outside it allows 8h and 12h, and 6h unless the record's
\* suppression_level is '6h_suppressed' and the opposite direction does not
\* reset it.
C20_UnknownTimeframe ==
    /\ [](IsShouldAllow
             => (~InCascade(last.timeframe)
                    \/ (LastKey \in DOMAIN last.before
                           /\ ~InCascade(last.before[LastKey].timeframe))
                 => last.allowed))
    /\ [][ShouldAlertStep
             => /\ ~InCascade(last'.timeframe) => last'.allowed
                /\ (StoredUnknown /\ last'.timeframe \in {"8h", "12h"})
                       => last'.allowed
                /\ (StoredUnknown /\ last'.timeframe = "6h")
                       => (last'.allowed
                              <=> \/ suppression_states[NextKey].suppression_level
                                         # "6h_suppressed"
                                  \/ RecentOpposite6h)]_vars

\* C20 witness: inside the 72h window, should_allow_signal allows a cascade
\* timeframe against a record whose stored timeframe is outside the cascade.
C20_Witness ==
    /\ IsShouldAllow
    /\ InCascade(last.timeframe)
    /\ LastKey \in DOMAIN last.before
    /\ ~InCascade(last.before[LastKey].timeframe)
    /\ last.timestamp - last.before[LastKey].timestamp <= suppression_window
    /\ last.allowed

\* how far up the cascade a suppression_level is
LevelRank(level) ==
    CASE level = "none" -> 0
      [] level = "6h_suppressed" -> 1
      [] level = "8h_suppressed" -> 2

\* the step is a should_alert call for `key` that the opposite direction resets
ResetsKey(key) == ShouldAlertStep /\ key = NextKey /\ RecentOpposite6h

\* C30: in MultiTimeframeSuppressor every record's suppression_level is one of
\* 'none', '6h_suppressed', '8h_suppressed', and while the record exists no
\* step lowers it, except a should_alert call that the opposite direction
\* resets.
C30_LevelOnlyRises ==
    /\ [](program = "analyzer_12h"
             => \A key \in DOMAIN suppression_states :
                    suppression_states[key].suppression_level \in SuppressionLevels)
    /\ [][program = "analyzer_12h"
             => \A key \in DOMAIN suppression_states \cap DOMAIN suppression_states' :
                    \/ LevelRank(suppression_states'[key].suppression_level)
                           >= LevelRank(suppression_states[key].suppression_level)
                    \/ ResetsKey(key)]_vars

\* C30 witness: an 8h signal allowed by the default branch on a record that
\* stays at '8h_suppressed' (it was last alerted on 6h at the top level).
C30_Witness ==
    /\ IsShouldAlert
    /\ last.timeframe = "8h"
    /\ last.action = "allow_default"
    /\ LastKey \in DOMAIN suppression_states
    /\ suppression_states[LastKey].suppression_level = "8h_suppressed"
    /\ suppression_states[LastKey].last_alert_time = last.timestamp

----------------------------------------------------------------------------
(* Frame of the direction latch (SpecLatch)                                 *)

\* two cache dicts agree on a symbol: both lack it or both hold the same entry
SameEntry(c, d, symbol) ==
    /\ symbol \in DOMAIN c <=> symbol \in DOMAIN d
    /\ (symbol \in DOMAIN c /\ symbol \in DOMAIN d) => c[symbol] = d[symbol]

\* worker w is inside save_cache() of an alerting analyze() call
Saving(w) == pc[w] \in {"save_cache", "dump", "dump_over"} /\ result[w].signal_alert

\* C27: only an analyze() call that alerts changes the persisted cache; the
\* write of a call that alerts for symbol s replaces the persisted cache by
\* one that differs from it in the entry of s alone, and when the call
\* returns the persisted last_signal of s is the alerted direction.
C27_AnalyzeFrame ==
    /\ [][alerts_file' # alerts_file => \E w \in Workers : Saving(w)]_vars
    /\ [][\A w \in Workers :
             (pc[w] = "save_cache" /\ pc'[w] = "dump")
                 => \A symbol \in Symbols \ {task[w].symbol} :
                        SameEntry(local[w], CipherB_load_cache(alerts_file),
                                  symbol)]_vars
    /\ []((last.op = "analyze" /\ last.signal_alert)
             => HasRecord(alerts_file, last.symbol, last.signal_type))

----------------------------------------------------------------------------
(* Claims about Deduplicator30m (SpecCooldown30m)                           *)

IsDedup30mCall == last.op = "Deduplicator30m.is_signal_allowed"

\* an allowed call in this direction at t0 for the candle of t0, then the
\* symbol's latest allowed call in the opposite direction 3 hours later, then
\* this call before the 4th hour after t0 has passed
BackAfterOpposite ==
    /\ IsDedup30mCall
    /\ last.marked.set /\ last.marked.key = LastKey
    /\ LastKey \in DOMAIN last.before
    /\ last.before[LastKey].recorded_at = last.marked.at
    /\ last.before[LastKey].timestamp = last.marked.at
    /\ last.had_recent
    /\ last.recent.signal_type = opposite(last.signal_type)
    /\ last.recent.at = last.marked.at + 3
    /\ last.at = last.recent.at

\* C28 as stated: after an allowed BUY at t0 and an allowed SELL at t0 + 3h,
\* a BUY right after the SELL is allowed although less than the cooldown has
\* elapsed since the first BUY.
C28_OppositeResets30m == BackAfterOpposite => last.allowed

\* C28 amended: Deduplicator30m keeps an independent cooldown per (symbol,
\* direction): a call is suppressed exactly when its own key has a record
\* whose candle timestamp is less than 4 hours before now, whatever was
\* allowed in the opposite direction, whose record the call leaves untouched.
C28_IndependentCooldowns ==
    IsDedup30mCall =>
        /\ ~last.allowed
               <=> /\ LastKey \in DOMAIN last.before
                   /\ last.at - last.before[LastKey].timestamp
                          < Deduplicator30m_cooldown_hours
        /\ LastOppositeKey \in DOMAIN last.before
               => /\ LastOppositeKey \in DOMAIN signal_history
                  /\ signal_history[LastOppositeKey] = last.before[LastOppositeKey]

\* C28 witness: the BUY right after the SELL is suppressed by the record of
\* the first BUY.
C28_Witness ==
    /\ BackAfterOpposite
    /\ ~last.allowed
    /\ last.signal_type = "BUY"

----------------------------------------------------------------------------
(* Claims about the records of all gates (SpecGates)                        *)

\* the key a '{symbol}_{direction}' store files a record under
DirectionKey(record_symbol, direction) == get_state_key(record_symbol, direction)

\* in the dicts d and d2 (before and after a step) no key present in both
\* changes the direction held in `field`
KeepsDirection(d, d2, field) ==
    \A key \in DOMAIN d \cap DOMAIN d2 : d2[key][field] = d[key][field]

\* C26 as stated: for every key of every gate's store the direction held in
\* the key's record never changes while the key exists: Deduplicator15m's
\* '{symbol}_recent' records, the CipherB latch cache and the
\* '{symbol}_{direction}' stores alike.
C26_DirectionImmutable ==
    /\ [][program = "analyzer_15m_cto"
             => KeepsDirection(signal_cache, signal_cache', "signal_type")]_vars
    /\ [][(program = "cipher_analyzer" /\ alerts_file.readable /\ alerts_file'.readable)
             => KeepsDirection(alerts_file.content, alerts_file'.content,
                               "last_signal")]_vars
    /\ [][program = "analyzer_30m"
             => KeepsDirection(signal_history, signal_history', "signal_type")]_vars
    /\ [][program = "analyzer_12h"
             => KeepsDirection(suppression_states, suppression_states',
                               "current_direction")]_vars

\* C26 amended: in the '{symbol}_{direction}' stores that hold the direction
\* in the record (Deduplicator30m, MultiTimeframeSuppressor) the direction of
\* a key's record never changes and is the direction of the key;
\* Deduplicator15m and the CipherB latch keep one record per symbol, whose
\* direction is that of the symbol's latest allowed signal and is overwritten
\* when the opposite direction is allowed.
C26_DirectionPerStore ==
    /\ [][program = "analyzer_30m"
             => KeepsDirection(signal_history, signal_history', "signal_type")]_vars
    /\ [][program = "analyzer_12h"
             => KeepsDirection(suppression_states, suppression_states',
                               "current_direction")]_vars
    /\ [](program = "analyzer_30m"
             => \A key \in DOMAIN signal_history :
                    key = DirectionKey(signal_history[key].symbol,
                                       signal_history[key].signal_type))
    /\ [](program = "analyzer_12h"
             => \A key \in DOMAIN suppression_states :
                    \E symbol \in GateSymbols :
                        key = DirectionKey(symbol,
                                  suppression_states[key].current_direction))
    /\ []((IsDedup15mCall /\ last.allowed)
             => /\ DOMAIN signal_cache = {recent_key(last.symbol)}
                /\ signal_cache[recent_key(last.symbol)].signal_type
                       = last.signal_type)
    /\ []((program = "cipher_analyzer" /\ last.op = "analyze" /\ last.signal_alert)
             => HasRecord(alerts_file, last.symbol, last.signal_type))

\* C26 witness: Deduplicator15m allowed a signal whose direction replaced the
\* other direction in the symbol's one record.
C26_Witness ==
    /\ IsDedup15mCall /\ last.allowed
    /\ recent_key(last.symbol) \in DOMAIN last.before
    /\ last.before[recent_key(last.symbol)].signal_type = opposite(last.signal_type)
    /\ signal_cache[recent_key(last.symbol)].signal_type = last.signal_type

----------------------------------------------------------------------------
(* Claims about persistence (SpecRestart)                                   *)

\* the decision a gate holding the dict d gives the next call, for every call
SameDecisions(d, e) ==
    \A symbol \in GateSymbols, signal_type \in SignalTypes :
        /\ program = "analyzer_15m_cto_shared"
               => \A age \in SignalAges :
                      SignalDeduplicator_is_signal_allowed(
                          d, symbol, signal_type, now - age, now).allowed
                      = SignalDeduplicator_is_signal_allowed(
                            e, symbol, signal_type, now - age, now).allowed
        /\ program = "analyzer_multi"
               => \A timeframe \in Timeframes, age \in 0 .. MaxCandleAge :
                      MultiTimeframeSuppressionManager_should_allow_signal(
                          d, symbol, signal_type, timeframe, now - age).action
                      = MultiTimeframeSuppressionManager_should_allow_signal(
                            e, symbol, signal_type, timeframe, now - age).action
        /\ program = "analyzer_12h"
               => \A timeframe \in Timeframes, age \in 0 .. MaxAlertAge :
                      MultiTimeframeSuppressor_should_alert(
                          d, symbol, signal_type, timeframe, now - age, now)
                      = MultiTimeframeSuppressor_should_alert(
                            e, symbol, signal_type, timeframe, now - age, now)

\* C23: after any sequence of gate operations the gate built from the
\* persisted file equals the gate in memory, so a restarted process leaves
\* the in-memory map as it was and decides every next call as the original
\* process would.
C23_StateSurvivesRestart ==
    /\ LoadedGate = GateInMemory
    /\ SameDecisions(LoadedGate, GateInMemory)
    /\ last.op = "restart" => GateInMemory = last.before

\* C23 witness: a process restarted while its gate held a record.
C23_Witness ==
    /\ last.op = "restart"
    /\ last.before # EmptyDict
    /\ GateInMemory = last.before

----------------------------------------------------------------------------
(* Claims about the shared state file (SpecShared)                          *)

\* C24: when two suppressor instances operate on the same state file, the
\* write of a should_alert call of one instance neither drops nor reverts a
\* record of the file other than the one of the call's own key.
C24_SingleOwner ==
    [][ShouldAlertStep
          => \A key \in DOMAIN state_file \ {NextKey} :
                 /\ key \in DOMAIN state_file'
                 /\ state_file'[key] = state_file[key]]_vars

----------------------------------------------------------------------------
(* Claims about a failing store (SpecPersist)                               *)

\* C21 as stated: if writing the store fails during a gate call that decided
\* to allow, the call still returns 'allowed' (the signal is alerted in this
\* cycle) and the cycle goes on with the next symbol, for every gate.
C21_PersistFailureKeepsDecision ==
    (last.op = "analyze_coin" /\ last.decided /\ last.write_failed)
        => (last.alerted /\ ~last.raised /\ last.next_symbol)

----------------------------------------------------------------------------
(* Claims about loaded state (SpecCorrupt)                                  *)

\* the record the gate finds for the symbol lacks a field or holds one that
\* does not parse
MalformedFor(sc, symbol) ==
    /\ recent_key(symbol) \in DOMAIN sc
    /\ \/ ~Parses(sc[recent_key(symbol)], "signal_type")
       \/ ~Parses(sc[recent_key(symbol)], "signal_time")
       \/ ~Parses(sc[recent_key(symbol)], "alerted_at")

\* C22 as stated: a malformed persisted record never makes a gate operation
\* raise or suppress; it counts as empty history, so the first signal for the
\* affected key is allowed.
C22_CorruptFailsOpen ==
    (/\ last.op = "Deduplicator15m.is_signal_allowed"
     /\ "raised" \in DOMAIN last
     /\ MalformedFor(last.before, last.symbol))
        => (~last.raised /\ last.allowed /\ last.alerted)

\* a record is expired at wall-clock t when its time field is missing or
\* unparseable or lies more than `hours` before t
Expired(data, field, t, hours) ==
    ~Parses(data, field) \/ t - data[field] > hours

\* the step a cleanup makes from dict `before` and file `file_before` to
\* `after` and `file_after`
CleanupFrame(before, after, file_before, file_after, field, hours) ==
    /\ DOMAIN after \subseteq DOMAIN before
    /\ \A key \in DOMAIN before :
          /\ key \notin DOMAIN after <=> Expired(before[key], field, now, hours)
          /\ key \in DOMAIN after => after[key] = before[key]
    /\ after = before => file_after = file_before

\* C29: cleanup_old_states deletes a record iff its created_at is more than
\* 72 hours before now or is missing/unparseable, cleanup_old_signals iff its
\* alerted_at is more than 24 hours before now or is missing/unparseable;
\* every other record is left unchanged and the file is rewritten only when
\* something was removed.
C29_CleanupExactlyExpired ==
    [][/\ last'.op = "Deduplicator15m.cleanup_old_signals"
          => CleanupFrame(signal_cache, signal_cache', signal_cache_file,
                          signal_cache_file', "alerted_at", 24)
       /\ last'.op = "cleanup_old_states_multi"
          => CleanupFrame(suppression_states, suppression_states', state_file,
                          state_file', "created_at", 72)]_vars

\* C29 witness: cleanup_old_signals has removed a record without a usable
\* alerted_at and kept one alerted exactly 24 hours ago.
C29_Witness ==
    /\ last.op = "Deduplicator15m.cleanup_old_signals"
    /\ \E key \in last.removed : ~Parses(last.before[key], "alerted_at")
    /\ \E key \in DOMAIN signal_cache : last.at - signal_cache[key].alerted_at = 24
    /\ signal_cache_file = signal_cache

----------------------------------------------------------------------------
(* Claims about the EMA crossover indicators (SpecEma)                      *)

IsCrossoverCall ==
    last.op \in {"EMA12_21Indicator.analyze", "DynamicEMAIndicator.analyze"}

\* a crossover on sufficient, fresh data for a symbol without entry in the
\* cache file alerts at once, and so does one exactly one cooldown after the
\* alert the file records
AlertsWhenDue ==
    /\ (IsCrossoverCall /\ last.eligible /\ ~last.had_recent_in_file)
           => last.crossover_alert
    /\ (/\ IsCrossoverCall
        /\ last.eligible
        /\ last.had_recent_in_file
        /\ last.at - last.recent_in_file.at = last.cooldown_hours)
           => last.crossover_alert

\* C31 as stated: any two crossover alerts for the same symbol are at least
\* the cooldown (6 hours, or the configured cooldown_hours) apart, golden or
\* death; a symbol without cache entry alerts at once and a crossover exactly
\* one cooldown after the last alert is allowed.
C31_AlertsCooldownApart ==
    /\ (IsCrossoverCall /\ last.crossover_alert /\ last.had_recent)
           => last.at - last.recent.at >= last.cooldown_hours
    /\ AlertsWhenDue

\* C31 amended: DynamicEMAIndicator keeps the cooldown per cache file, that
\* is per EMA pair: two alerts for the same symbol recorded in the same file
\* are at least the active cooldown apart; for EMA12_21Indicator, which has
\* one file, any two alerts for a symbol are at least 6 hours apart.
C31_AlertsCooldownApartPerFile ==
    /\ (IsCrossoverCall /\ last.crossover_alert /\ last.had_recent_in_file)
           => last.at - last.recent_in_file.at >= last.cooldown_hours
    /\ (/\ last.op = "EMA12_21Indicator.analyze"
        /\ last.crossover_alert
        /\ last.had_recent)
           => last.at - last.recent.at >= 6
    /\ AlertsWhenDue

\* C31 witness: a death cross alerts exactly one cooldown after a golden
\* cross of the same symbol alerted.
C31_Witness ==
    /\ IsCrossoverCall
    /\ last.crossover_alert
    /\ last.crossover_type = "death_cross"
    /\ last.had_recent_in_file
    /\ last.recent_in_file.signal_type = "golden_cross"
    /\ last.at - last.recent_in_file.at = last.cooldown_hours

----------------------------------------------------------------------------
(* Shape and frame of the SignalDeduplicator cache (SpecCooldown)           *)

OneDirection(c) ==
    \A symbol \in GateSymbols :
        ~(/\ get_state_key(symbol, "BUY") \in DOMAIN c
          /\ get_state_key(symbol, "SELL") \in DOMAIN c)

\* C32: starting from an empty cache, in every state reachable through
\* is_signal_allowed and cleanup_old_records at most one of the keys
\* '{symbol}_BUY' and '{symbol}_SELL' is present for any symbol.
C32_OneDirectionPerSymbol ==
    program = "analyzer_15m_cto_shared" => OneDirection(cache) /\ OneDirection(cache_file)

\* C32 witness: an allowed call has found the opposite key and replaced it
\* by its own.
C32_Witness ==
    /\ last.op = "SignalDeduplicator.is_signal_allowed"
    /\ last.allowed
    /\ get_state_key(last.symbol, opposite(last.signal_type)) \in DOMAIN last.before
    /\ DOMAIN cache = {get_state_key(last.symbol, last.signal_type)}

\* C33: a call to SignalDeduplicator.is_signal_allowed that returns False
\* (stale signal, or same-direction cooldown active) leaves the cache and
\* the persisted file unchanged: nothing is written, no key is deleted.
C33_SuppressedCallFrame ==
    [][(/\ last'.op = "SignalDeduplicator.is_signal_allowed"
        /\ ~last'.allowed)
           => (cache' = cache /\ cache_file' = cache_file)]_vars

\* C33 witness: a stale signal was refused while the opposite direction's
\* record was in the cache, and the record is still there.
C33_Witness ==
    /\ last.op = "SignalDeduplicator.is_signal_allowed"
    /\ ~last.allowed
    /\ last.at - last.timestamp > 1
    /\ get_state_key(last.symbol, opposite(last.signal_type)) \in DOMAIN last.before
    /\ cache = last.before
    /\ cache_file = cache

----------------------------------------------------------------------------
(* Alerts per trend in the cascading manager (SpecCascade)                  *)

\* the record of the latest recorded signal of the call's symbol and
\* direction is still in the store: no opposite-direction record_signal has
\* deleted it since
HasTrendRecord ==
    get_state_key(last.symbol, last.signal_type) \in DOMAIN last.before

TrendRecord == last.before[get_state_key(last.symbol, last.signal_type)]

\* C34: with record_signal after every allow, for a fixed symbol and
\* direction, as long as no opposite-direction record_signal intervenes and
\* no signal comes more than 72h after the recorded one, an allowed signal on
\* a cascade timeframe has a strictly higher cascade index than the recorded
\* one, which is the signal allowed before it; so at most n are allowed.
C34_AllowedIndexRises ==
    /\ (/\ last.op = "should_allow_signal"
        /\ last.allowed
        /\ HasTrendRecord
        /\ InCascade(last.timeframe)
        /\ InCascade(TrendRecord.timeframe)
        /\ last.timestamp - TrendRecord.timestamp <= 72)
           => index(last.timeframe) > index(TrendRecord.timeframe)
    /\ last.op = "record_signal"
           => suppression_states[get_state_key(last.symbol, last.signal_type)]
                  = [timeframe |-> last.timeframe, timestamp |-> last.timestamp,
                     recorded_at |-> last.at]

\* C34 witness: the 12h signal of a trend is allowed after its 8h signal was
\* recorded, the last step of the cascade.
C34_Witness ==
    /\ last.op = "should_allow_signal"
    /\ last.allowed
    /\ HasTrendRecord
    /\ last.timeframe = "12h"
    /\ TrendRecord.timeframe = "8h"
    /\ last.timestamp - TrendRecord.timestamp <= 72

----------------------------------------------------------------------------
(* The opposite-direction reset of the suppressor (SpecSuppressor)          *)

\* C35: as long as the opposite-direction record of a symbol has
\* last_alerted_timeframe '6h' and a last_alert_time less than 24h old, every
\* should_alert call for the current direction returns True, on every
\* timeframe and every repetition, and leaves the opposite record as it was.
C35_ResetNotConsumed ==
    [][(ShouldAlertStep /\ RecentOpposite6h)
          => /\ last'.allowed
             /\ NextOppositeKey \in DOMAIN suppression_states'
             /\ suppression_states'[NextOppositeKey]
                    = suppression_states[NextOppositeKey]]_vars

\* C35 witness: a repeated 6h call of a direction that already had a record
\* was allowed by the reset, and the opposite 6h record is still there.
C35_Witness ==
    /\ last.op = "should_alert"
    /\ last.allowed
    /\ last.action = "opposite_reset"
    /\ last.timeframe = "6h"
    /\ get_state_key(last.symbol, opposite(last.signal_type)) \in DOMAIN suppression_states
    /\ suppression_states[get_state_key(last.symbol, opposite(last.signal_type))]
           .last_alerted_timeframe = "6h"

----------------------------------------------------------------------------
(* Cleanup and the cooldown of SignalDeduplicator (SpecCooldown)            *)

\* what cleanup_old_records would leave of the cache if it ran now
Cleaned == DelAll(cache, SignalDeduplicator_keys_to_remove(cache, now))

\* the calls that can follow: now or up to two cooldowns later
LaterTimes == now .. now + 2 * cooldown_hours

\* C36: cleanup_old_records removes only records older than twice the
\* cooldown, whose cooldown has elapsed, so every later is_signal_allowed
\* call returns the same whether or not cleanup ran before it.
C36_CleanupKeepsDecisions ==
    program = "analyzer_15m_cto_shared"
        => \A symbol \in GateSymbols, signal_type \in SignalTypes,
              t \in LaterTimes, age \in SignalAges :
              SignalDeduplicator_is_signal_allowed(
                  Cleaned, symbol, signal_type, t - age, t).allowed
              = SignalDeduplicator_is_signal_allowed(
                    cache, symbol, signal_type, t - age, t).allowed

\* C36 witness: cleanup has removed a record, and the call for that key is
\* allowed on the cleaned cache.
C36_Witness ==
    /\ last.op = "SignalDeduplicator.cleanup_old_records"
    /\ last.removed # {}
    /\ \E symbol \in GateSymbols, signal_type \in SignalTypes :
          /\ get_state_key(symbol, signal_type) \in last.removed
          /\ SignalDeduplicator_is_signal_allowed(
                 cache, symbol, signal_type, now, now).allowed
          /\ SignalDeduplicator_is_signal_allowed(
                 last.before, symbol, signal_type, now, now).allowed

-----------------------------------------------------------------------------
(* Claims about Multi6HAnalyzer.run_analysis (SpecRun6h) *)

IsAnalyzeCoin6h == last.op = "analyze_coin_for_signals"

IsSendAlert6h == last.op = "send_multi_consolidated_alert"

\* The record record_signal writes for a signal of the 6h analyzer at wall-clock t.
Committed(file, signal, t) ==
    /\ get_state_key(signal.symbol, signal.signal_type) \in DOMAIN file
    /\ LET record == file[get_state_key(signal.symbol, signal.signal_type)]
       IN  /\ record.timeframe = Multi6HAnalyzer_timeframe
           /\ record.timestamp = signal.timestamp
           /\ record.recorded_at = t

LastSignal6h ==
    [symbol |-> last.symbol, signal_type |-> last.signal_type,
     timestamp |-> last.timestamp]

\* The signal analysed now repeats, one 6h cycle later, a signal whose
\* consolidated alert was not delivered.
RepeatsUndelivered ==
    /\ IsAnalyzeCoin6h
    /\ last.asked
    /\ last.at = last.failed_at + cycle_hours
    /\ \E signal \in last.failed : /\ signal.symbol = last.symbol
                                   /\ signal.signal_type = last.signal_type

\* C37: in run_analysis of the 6h analyzer a signal is recorded exactly when
\* should_allow_signal allowed it (its record is then in the dict and in the
\* state file, and it is in valid_signals; otherwise dict, file and
\* valid_signals are untouched); when the consolidated alert is sent the record
\* of every signal in valid_signals is already in the state file; whether
\* delivery succeeds or fails the send leaves dict and file as they were; and a
\* signal of the same symbol and direction in the run six hours after a failed
\* delivery is suppressed.
C37_RecordedBeforeDelivery ==
    /\ IsAnalyzeCoin6h =>
          /\ last.returned <=> (last.asked /\ last.allowed)
          /\ last.returned =>
                /\ Committed(suppression_states, LastSignal6h, last.at)
                /\ state_file = suppression_states
                /\ LastSignal6h \in run6h.valid_signals
          /\ ~last.returned =>
                /\ suppression_states = last.before
                /\ state_file = last.before_file
                /\ LastSignal6h \notin run6h.valid_signals
    /\ IsSendAlert6h =>
          /\ \A signal \in last.signals : Committed(state_file, signal, last.at)
          /\ suppression_states = last.before
          /\ state_file = last.before_file
          /\ ~last.success => run6h.failed = last.signals
    /\ RepeatsUndelivered =>
          /\ ~last.allowed
          /\ ~last.returned
          /\ last.action = "suppress_same_tf"

\* A signal was allowed and recorded, its alert was not delivered, and the
\* next run suppresses the same symbol and direction.
C37_Witness ==
    /\ RepeatsUndelivered
    /\ ~last.allowed
    /\ last.failed # {}

-----------------------------------------------------------------------------
(* Claims about the precedence of buy in CipherB15MIndicator.analyze (SpecLatch) *)

\* analyze() returned after detect_cipher_b_signals reported both directions.
BothDetected ==
    /\ last.op = "analyze"
    /\ last.buy_signal
    /\ last.sell_signal
    /\ last.reason \in {"valid_signal", "same_direction_blocked"}

\* C38: when detect_cipher_b_signals reports both buy_signal and sell_signal,
\* analyze only looks at the buy.  If the last_signal it loaded is 'buy' it
\* returns same_direction_blocked without an alert, writes nothing, and the
\* stored direction stays 'buy' (the sell is neither alerted nor recorded);
\* otherwise it alerts the buy, the dict it saves holds last_signal 'buy' for
\* the symbol, and so does the file whenever the write left it readable.
C38_BuyTakesPrecedence ==
    BothDetected =>
        /\ last.stored = "buy" =>
              /\ ~last.signal_alert
              /\ last.signal_type = ""
              /\ last.reason = "same_direction_blocked"
              /\ last_signal(CipherB_load_cache(alerts_file), last.symbol) = "buy"
        /\ last.stored # "buy" =>
              /\ last.signal_alert
              /\ last.signal_type = "buy"
              /\ last.reason = "valid_signal"
              /\ last_signal(local[last.worker], last.symbol) = "buy"
              /\ alerts_file.readable =>
                    last_signal(alerts_file.content, last.symbol) = "buy"

\* Both directions were detected for a symbol whose last alert was a buy, and
\* the call was blocked.
C38_Witness ==
    /\ BothDetected
    /\ last.stored = "buy"
    /\ last.reason = "same_direction_blocked"

----------------------------------------------------------------------------
(* Further claims about the freshness validator (SpecFreshness)             *)

\* the ages the same signal has at the same or a later now
LaterAges(signal_age_minutes) ==
    {later \in AgeMinutes : later >= signal_age_minutes}

\* C39: is_signal_fresh has no lower bound on the age: a signal whose
\* timestamp lies ahead of now (negative age) is fresh for every timeframe;
\* and for a fixed signal timestamp freshness is monotone in time: a signal
\* found not fresh is not fresh at any later now.
C39_NoLowerBoundMonotone ==
    IsFreshnessCall =>
        /\ last.signal_age_minutes < 0 => last.fresh
        /\ \A timeframe \in FreshnessTimeframes, ahead \in 1 .. MaxFutureMinutes :
              is_signal_fresh(0 - ahead, timeframe)
        /\ ~last.fresh =>
              \A later \in LaterAges(last.signal_age_minutes) :
                  ~is_signal_fresh(later, last.timeframe)

\* C39 witness: a 12h signal stamped a minute ahead of the clock is fresh.
C39_Witness ==
    /\ IsFreshnessCall
    /\ last.timeframe = "12h"
    /\ last.signal_age_minutes = 0 - 1
    /\ last.fresh

Spec == SpecCooldown

====
